---- MODULE Spec2Model ----
(***************************************************************************)
(* Agent orchestration and memory engine of the contextual assistant       *)
(* (backend/memory_brain.py, backend/agent.py, backend/chat.py,            *)
(* backend/database.py).                                                   *)
(*                                                                         *)
(* Conventions.                                                            *)
(*  - Text is a TLA+ string; Python's str operations (lower, split, `in`)  *)
(*    are computed character by character with SubSeq/Len.                 *)
(*  - A confidence is held in hundredths: 0.9 is 90, the 0.7 threshold is  *)
(*    70.  A float the program computes (a relevance, a sort key) carries  *)
(*    its rounding as well: see Float.                                     *)
(*  - A Python dict with optional keys is a record whose DOMAIN holds the  *)
(*    keys that are present; dict.get(k, d) is Get(f, k, d).               *)
(*  - memory_entries is the set of committed rows `db`.  The JSON column   *)
(*    declared at database.py:111 is the row field extra_data, the keyword *)
(*    store_facts passes to the MemoryEntry constructor.                   *)
(*  - One server process runs the event loop (main.py:97): a coroutine     *)
(*    that never awaits, such as store_facts, is one atomic action.        *)
(***************************************************************************)
EXTENDS Integers, Sequences, FiniteSets, TLC

VARIABLES
    db,        \* committed rows of table memory_entries
    nextId,    \* number of primary keys (uuid4) handed out so far, plus one
    clock,     \* last value datetime.utcnow() returned to a committed write
    ret,       \* the last call of a MemoryBrain method: name, arguments, return value
    conversations,  \* tables conversations and messages: per conversation, owner and messages
    runs,      \* the send_message requests: where each is, and its AgentState
    calls      \* per request, the calls of tool functions made by execute_tool

vars == <<db, nextId, clock, ret, conversations, runs, calls>>

store == <<db, nextId, clock>>

chat == <<conversations, runs, calls>>

(***************************************************************************)
(* Bounds of the model.                                                    *)
(***************************************************************************)
MaxIds == 2        \* rows ever inserted
MaxClock == 2      \* committed writes
MaxLimit == 2      \* largest `limit` passed to retrieve_relevant_memories

(***************************************************************************)
(* Python str operations.                                                  *)
(***************************************************************************)
Ch(s, i) == SubSeq(s, i, i)

UpperCase == {"A","B","C","D","E","F","G","H","I","J","K","L","M",
              "N","O","P","Q","R","S","T","U","V","W","X","Y","Z"}

LowerOf ==
    [c \in UpperCase |->
        CASE c = "A" -> "a" [] c = "B" -> "b" [] c = "C" -> "c" [] c = "D" -> "d"
          [] c = "E" -> "e" [] c = "F" -> "f" [] c = "G" -> "g" [] c = "H" -> "h"
          [] c = "I" -> "i" [] c = "J" -> "j" [] c = "K" -> "k" [] c = "L" -> "l"
          [] c = "M" -> "m" [] c = "N" -> "n" [] c = "O" -> "o" [] c = "P" -> "p"
          [] c = "Q" -> "q" [] c = "R" -> "r" [] c = "S" -> "s" [] c = "T" -> "t"
          [] c = "U" -> "u" [] c = "V" -> "v" [] c = "W" -> "w" [] c = "X" -> "x"
          [] c = "Y" -> "y" [] c = "Z" -> "z"]

\* str.lower() of the characters of s from place i on
RECURSIVE LowerFrom(_, _)
LowerFrom(s, i) ==
    IF i > Len(s) THEN ""
    ELSE (IF Ch(s, i) \in UpperCase THEN LowerOf[Ch(s, i)] ELSE Ch(s, i))
         \o LowerFrom(s, i + 1)

\* str.lower()
Lower(s) == LowerFrom(s, 1)

\* `t in s` for two strings
Contains(s, t) ==
    \E i \in 1..(Len(s) - Len(t) + 1) : SubSeq(s, i, i + Len(t) - 1) = t

IsSpace(c) == c = " "

\* set(s.split()): the maximal runs of non-blank characters
Words(s) ==
    { SubSeq(s, i, j) : <<i, j>> \in
        { p \in (1..Len(s)) \X (1..Len(s)) :
            /\ p[1] <= p[2]
            /\ \A k \in p[1]..p[2] : ~IsSpace(Ch(s, k))
            /\ (p[1] = 1 \/ IsSpace(Ch(s, p[1] - 1)))
            /\ (p[2] = Len(s) \/ IsSpace(Ch(s, p[2] + 1))) } }

\* dict.get(key, default)
Get(f, key, default) == IF key \in DOMAIN f THEN f[key] ELSE default

EmptyDict == [k \in {} |-> k]

Max(a, b) == IF a >= b THEN a ELSE b

(***************************************************************************)
(* Data model: MemoryCategory, MemorySource, MemoryEntry.                  *)
(***************************************************************************)
Categories == {"preference", "project", "contact", "style", "fact", "task", "schedule"}

Sources == {"chat", "email", "calendar", "explicit"}

Users == {"u1", "u2"}

\* fact.get('confidence', 0) in the duplicate branch of store_facts
DUP_DEFAULT_CONFIDENCE == 0

\* fact.get('confidence', 0.5) when a new entry is built
NEW_DEFAULT_CONFIDENCE == 50

\* CheckConstraint("confidence >= 0 AND confidence <= 1")
CONFIDENCE_MIN == 0

CONFIDENCE_MAX == 100

\* A table created without the CHECK constraint.
check_confidence_missing(row) == TRUE

\* The table's CHECK constraint, evaluated by the database on INSERT and UPDATE.
check_confidence(row) ==
    row.confidence >= CONFIDENCE_MIN /\ row.confidence <= CONFIDENCE_MAX

\* MemoryEntry(user_id=..., content=..., category=..., source=...,
\*             confidence=fact.get('confidence', 0.5),
\*             extra_data=fact.get('extra_data', {})); id, created_at and
\* updated_at take their column defaults when the row is flushed.
MemoryEntry(user_id, fact, id, now) ==
    [ id         |-> id,
      user_id    |-> user_id,
      content    |-> fact.content,
      category   |-> fact.category,
      source     |-> fact.source,
      confidence |-> Get(fact, "confidence", NEW_DEFAULT_CONFIDENCE),
      extra_data |-> Get(fact, "extra_data", EmptyDict),
      created_at |-> now,
      updated_at |-> now ]

\* db.query(MemoryEntry).filter(user_id == u, content == c): the committed rows
\* that match.  The session is built with autoflush=False, so objects added
\* to the session and not yet flushed are not among them.
QueryByContent(rows, u, c) == {r \in rows : r.user_id = u /\ r.content = c}

\* db.query(MemoryEntry).filter(id == memory_id, user_id == u)
QueryById(rows, u, id) == {r \in rows : r.id = id /\ r.user_id = u}

(***************************************************************************)
(* MemoryBrain.store_facts.                                                *)
(***************************************************************************)
\* The session while the loop runs: upd maps the id of each loaded row whose
\* confidence was raised to its new value (the identity map hands the same
\* object to a later query), adds is the list of objects given to db.add.
EmptySession == [upd |-> EmptyDict, adds |-> <<>>]

SessionConfidence(st, row) ==
    IF row.id \in DOMAIN st.upd THEN st.upd[row.id] ELSE row.confidence

\* A duplicate branch that takes the fact's confidence whatever the stored one.
MergeDuplicateUnconditional(st, row, fact) ==
    [st EXCEPT !.upd = (row.id :> Get(fact, "confidence", DUP_DEFAULT_CONFIDENCE)) @@ @]

\* One duplicate found: raise the confidence if the fact's is higher.
MergeDuplicate(st, row, fact) ==
    IF Get(fact, "confidence", DUP_DEFAULT_CONFIDENCE) > SessionConfidence(st, row)
    THEN [st EXCEPT !.upd = (row.id :> fact.confidence) @@ @]
    ELSE st

\* The for loop over facts[i..]: the set of sessions it can end in.  .first()
\* has no ORDER BY: with several matching rows the database may return any.
RECURSIVE StoreLoop(_, _, _, _, _)
StoreLoop(rows, u, facts, i, st) ==
    IF i > Len(facts) THEN {st}
    ELSE LET fact == facts[i]
             found == QueryByContent(rows, u, fact.content)
         IN IF found = {}
            THEN StoreLoop(rows, u, facts, i + 1,
                           [st EXCEPT !.adds = Append(@, fact)])
            ELSE UNION { StoreLoop(rows, u, facts, i + 1,
                                   MergeDuplicate(st, existing, fact))
                         : existing \in found }

\* What db.commit() writes: the INSERTs of the added objects and the UPDATEs
\* of the rows whose confidence was raised.
Inserted(u, st, firstId, now) ==
    { MemoryEntry(u, st.adds[k], firstId + k - 1, now) : k \in 1..Len(st.adds) }

Updated(rows, st, now) ==
    { [r EXCEPT !.confidence = st.upd[r.id], !.updated_at = now]
      : r \in {x \in rows : x.id \in DOMAIN st.upd} }

Untouched(rows, st) == {r \in rows : r.id \notin DOMAIN st.upd}

\* The runs of store_facts(user_id, facts) from the store (rows, firstId,
\* time): for each, the store it leaves, the value it returns (count) and
\* whether it took the except branch (raised).
\* failAt = 0: no statement fails for a reason outside the program;
\* failAt = k in 1..Len(facts): the k-th duplicate query raises;
\* failAt = Len(facts) + 1: the commit raises.  A CHECK violation raises at
\* the commit as well.  Every raise is caught: rollback, and the method
\* returns stored_count as counted so far.
StoreFactsRuns(rows, firstId, time, u, facts, failAt) ==
    LET done == IF failAt = 0 THEN Len(facts) ELSE failAt - 1
    IN { LET now      == time + 1
             inserted == Inserted(u, st, firstId, now)
             updated  == Updated(rows, st, now)
             written  == inserted \cup updated
             ok       == failAt = 0 /\ \A r \in written : check_confidence(r)
             commits  == ok /\ written # {}
         IN [ db     |-> IF commits THEN Untouched(rows, st) \cup written ELSE rows,
              nextId |-> IF commits THEN firstId + Len(st.adds) ELSE firstId,
              clock  |-> IF commits THEN now ELSE time,
              count  |-> Len(st.adds),
              raised |-> ~ok ]
         : st \in StoreLoop(rows, u, SubSeq(facts, 1, done), 1, EmptySession) }

\* The bounds of the model: primary keys and timestamps handed out.
WithinBounds(run) == run.nextId <= MaxIds + 1 /\ run.clock <= MaxClock

\* A call of store_facts from outside the pipeline.
StoreFacts(u, facts, failAt) ==
    \E run \in StoreFactsRuns(db, nextId, clock, u, facts, failAt) :
        /\ WithinBounds(run)
        /\ db' = run.db
        /\ nextId' = run.nextId
        /\ clock' = run.clock
        /\ ret' = [ op |-> "store_facts", user_id |-> u, facts |-> facts,
                    value |-> run.count, raised |-> run.raised ]
        /\ UNCHANGED chat

(***************************************************************************)
(* MemoryBrain.update_memory, delete_memory, get_all_memories.             *)
(***************************************************************************)
\* `if new_content:` is false for None and for the empty string.
Truthy(args, key) == key \in DOMAIN args /\ args[key] # ""

\* The attribute assignments of update_memory on the loaded row.
ApplyUpdate(row, args, now) ==
    [row EXCEPT
        !.content    = IF Truthy(args, "new_content") THEN args.new_content ELSE @,
        !.confidence = IF "new_confidence" \in DOMAIN args
                       THEN args.new_confidence ELSE @,
        !.updated_at = now]

\* update_memory(user_id, memory_id, new_content, new_confidence); an argument
\* left out of args is None.  fails: a statement raises for a reason outside
\* the program.  Returns True only after a commit.
UpdateMemory(u, id, args, fails) ==
    LET found == QueryById(db, u, id)
        now   == clock + 1
    IN IF fails \/ found = {}
       THEN /\ ret' = [ op |-> "update_memory", user_id |-> u, memory_id |-> id,
                        args |-> args, value |-> FALSE, raised |-> fails ]
            /\ UNCHANGED <<db, nextId, clock, chat>>
       ELSE \E memory \in found :
            LET new == ApplyUpdate(memory, args, now)
                ok  == check_confidence(new)
            IN /\ ok => now <= MaxClock
               /\ db' = IF ok THEN (db \ {memory}) \cup {new} ELSE db
               /\ clock' = IF ok THEN now ELSE clock
               /\ ret' = [ op |-> "update_memory", user_id |-> u, memory_id |-> id,
                           args |-> args, value |-> ok, raised |-> ~ok ]
               /\ UNCHANGED <<nextId, chat>>

\* delete_memory(user_id, memory_id)
\* A deletion that looks the fact up by its id alone.
DeleteMemoryAnyOwner(u, id, fails) ==
    LET found == { row \in db : row.id = id }
        ok    == ~fails /\ found # {}
    IN /\ db' = IF ok THEN db \ found ELSE db
       /\ ret' = [ op |-> "delete_memory", user_id |-> u, memory_id |-> id,
                   value |-> ok, raised |-> fails ]
       /\ UNCHANGED <<nextId, clock, chat>>

DeleteMemory(u, id, fails) ==
    LET found == QueryById(db, u, id)
        ok    == ~fails /\ found # {}
    IN /\ db' = IF ok THEN db \ found ELSE db
       /\ ret' = [ op |-> "delete_memory", user_id |-> u, memory_id |-> id,
                   value |-> ok, raised |-> fails ]
       /\ UNCHANGED <<nextId, clock, chat>>

\* .all(): the rows of a query as a list, in every possible arrangement.
Arrangements(rows) ==
    { s \in [1..Cardinality(rows) -> rows] : \A i, j \in DOMAIN s : i # j => s[i] # s[j] }

\* order_by(MemoryEntry.updated_at.desc())
ByRecency(a, b) == a.updated_at >= b.updated_at

\* The lists the query of get_all_memories can return: no row comes before
\* one updated later; rows updated together come in any order.
OrderedByRecency(rows) ==
    { s \in Arrangements(rows) : \A i, j \in DOMAIN s : i < j => ByRecency(s[i], s[j]) }

\* The dict get_all_memories builds for a row.
MemoryDict(m) ==
    [ id |-> m.id, content |-> m.content, category |-> m.category,
      source |-> m.source, confidence |-> m.confidence,
      created_at |-> m.created_at, updated_at |-> m.updated_at ]

\* get_all_memories(user_id)
GetAllMemories(u, fails) ==
    /\ \E memories \in OrderedByRecency({r \in db : r.user_id = u}) :
          ret' = [ op |-> "get_all_memories", user_id |-> u, raised |-> fails,
                   value |-> IF fails THEN <<>>
                             ELSE [i \in DOMAIN memories |-> MemoryDict(memories[i])] ]
    /\ UNCHANGED <<db, nextId, clock, chat>>

(***************************************************************************)
(* MemoryBrain.retrieve_relevant_memories.                                 *)
(***************************************************************************)
\* relevance_score += overlap * 0.1
OVERLAP_WEIGHT == 10

\* relevance_score += 0.3
CATEGORY_BONUS == 30

\* memory.confidence > 0.7
HIGH_CONFIDENCE == 70

\* order_by(MemoryEntry.confidence.desc(), MemoryEntry.updated_at.desc())
ByConfidenceThenRecency(a, b) ==
    \/ a.confidence > b.confidence
    \/ a.confidence = b.confidence /\ a.updated_at >= b.updated_at

Min(a, b) == IF a <= b THEN a ELSE b

\* The query without the filter on user_id.
CandidatesOfAnyUser(rows, u, categories) ==
    { r \in rows : categories # {} => r.category \in categories }

\* query.filter(user_id == u) [.filter(category.in_(categories))]: `if
\* categories:` is false for None and for the empty list, here the empty set.
Candidates(rows, u, categories) ==
    { r \in rows : r.user_id = u /\ (categories # {} => r.category \in categories) }

\* The query without .limit(limit).
FetchUnlimited(rows, u, categories, limit) ==
    { a \in Arrangements(Candidates(rows, u, categories)) :
        \A i, j \in DOMAIN a : i < j => ByConfidenceThenRecency(a[i], a[j]) }

\* .order_by(...).limit(limit).all(): the lists the query can return.  Rows
\* equal in confidence and updated_at come in any order.
Fetch(rows, u, categories, limit) ==
    { SubSeq(s, 1, Min(limit, Len(s)))
      : s \in { a \in Arrangements(Candidates(rows, u, categories)) :
                 \A i, j \in DOMAIN a : i < j => ByConfidenceThenRecency(a[i], a[j]) } }

\* Python floats.  A confidence is the double nearest h/100 and is kept as
\* the integer h.  A value the method computes is [h, e]: the double that
\* lies e units in the last place from the one nearest h/100.
Float(h) == [h |-> h, e |-> 0]

\* x >= y
FloatGE(x, y) == x.h > y.h \/ (x.h = y.h /\ x.e >= y.e)

\* overlap * 0.1: 3 * 0.1, 6 * 0.1 and 7 * 0.1 round above 0.3, 0.6 and 0.7.
OverlapScore(overlap) ==
    [h |-> overlap * OVERLAP_WEIGHT, e |-> IF overlap \in {3, 6, 7} THEN 1 ELSE 0]

\* The sums x + y of IEEE-754 doubles that do not round to the double nearest
\* the decimal sum, as <<x.h, x.e, y.h, y.e>>, for x a confidence that is a
\* multiple of 0.05 in [0, 1] or an overlap score, and y a relevance made of
\* at most 7 common words and one category bonus.
AddRoundsUp ==
    {
      <<0, 0, 30, 1>>, <<0, 0, 60, 1>>, <<0, 0, 70, 1>>, <<0, 0, 90, 1>>,
      <<5, 0, 10, 0>>, <<5, 0, 30, 1>>, <<5, 0, 60, 1>>, <<5, 0, 70, 1>>,
      <<5, 0, 80, 0>>, <<10, 0, 20, 0>>, <<10, 0, 60, 1>>, <<10, 0, 90, 1>>,
      <<15, 0, 30, 1>>, <<15, 0, 60, 1>>, <<15, 0, 70, 1>>, <<15, 0, 80, 0>>,
      <<20, 0, 10, 0>>, <<20, 0, 40, 0>>, <<20, 0, 70, 1>>, <<25, 0, 60, 1>>,
      <<25, 0, 70, 1>>, <<25, 0, 90, 1>>, <<30, 0, 30, 1>>, <<30, 0, 60, 1>>,
      <<30, 0, 90, 1>>, <<30, 1, 30, 0>>, <<35, 0, 60, 1>>, <<40, 0, 20, 0>>,
      <<40, 0, 30, 1>>, <<40, 0, 80, 0>>, <<40, 0, 90, 1>>, <<45, 0, 40, 0>>,
      <<45, 0, 70, 1>>, <<50, 0, 70, 1>>, <<50, 0, 90, 1>>, <<55, 0, 30, 0>>,
      <<55, 0, 30, 1>>, <<55, 0, 40, 0>>, <<55, 0, 60, 1>>, <<55, 0, 90, 1>>,
      <<60, 0, 60, 1>>, <<60, 1, 30, 0>>, <<65, 0, 20, 0>>, <<65, 0, 30, 1>>,
      <<65, 0, 80, 0>>, <<65, 0, 90, 1>>, <<75, 0, 70, 1>>, <<75, 0, 90, 1>>,
      <<80, 0, 40, 0>>, <<80, 0, 60, 1>>, <<80, 0, 90, 1>>, <<85, 0, 60, 1>>,
      <<90, 0, 30, 1>>, <<90, 0, 80, 0>>, <<90, 0, 90, 1>>, <<100, 0, 70, 1>>,
      <<100, 0, 90, 1>>
    }

AddRoundsUpTwice ==
    {
      <<5, 0, 90, 1>>
    }

AddRoundsDown ==
    {
      <<10, 0, 70, 0>>, <<15, 0, 30, 0>>, <<20, 0, 70, 0>>, <<35, 0, 10, 0>>,
      <<35, 0, 30, 0>>, <<35, 0, 70, 0>>, <<60, 0, 30, 0>>, <<60, 0, 70, 0>>,
      <<70, 0, 10, 0>>, <<70, 0, 20, 0>>, <<85, 0, 70, 0>>
    }

\* x + y
FloatAdd(x, y) ==
    LET operands == <<x.h, x.e, y.h, y.e>>
    IN [ h |-> x.h + y.h,
         e |-> IF operands \in AddRoundsUp THEN 1
               ELSE IF operands \in AddRoundsUpTwice THEN 2
               ELSE IF operands \in AddRoundsDown THEN 0 - 1
               ELSE 0 ]

\* The score computed in the loop body for one memory.
Relevance(context_lower, memory) ==
    LET content_lower == Lower(memory.content)
        overlap == Cardinality(Words(context_lower) \cap Words(content_lower))
        sched == /\ Contains(context_lower, "meeting") \/ Contains(context_lower, "schedule")
                 /\ memory.category \in {"schedule", "preference"}
        mail  == /\ Contains(context_lower, "email") \/ Contains(context_lower, "mail")
                 /\ memory.category \in {"project", "contact"}
        score1 == OverlapScore(overlap)
        score2 == IF sched THEN FloatAdd(score1, Float(CATEGORY_BONUS)) ELSE score1
    IN IF mail THEN FloatAdd(score2, Float(CATEGORY_BONUS)) ELSE score2

\* A filter that asks for both relevance and high confidence.
KeepRelevantAndConfident(memory, relevance_score) ==
    relevance_score.h > 0 /\ memory.confidence > HIGH_CONFIDENCE

\* if relevance_score > 0 or memory.confidence > 0.7
Keep(memory, relevance_score) ==
    relevance_score.h > 0 \/ memory.confidence > HIGH_CONFIDENCE

\* The dict appended to relevant_memories.
RelevantDict(m, relevance_score) ==
    [ id |-> m.id, content |-> m.content, category |-> m.category,
      source |-> m.source, confidence |-> m.confidence,
      relevance |-> relevance_score, created_at |-> m.created_at ]

\* The for loop: score every fetched memory, keep the relevant ones in order.
RECURSIVE ScoreAndFilter(_, _, _)
ScoreAndFilter(memories, context_lower, i) ==
    IF i > Len(memories) THEN <<>>
    ELSE LET score == Relevance(context_lower, memories[i])
             rest  == ScoreAndFilter(memories, context_lower, i + 1)
         IN IF Keep(memories[i], score)
            THEN <<RelevantDict(memories[i], score)>> \o rest
            ELSE rest

\* key=lambda x: x['confidence'] + x['relevance']
CombinedScore(x) == FloatAdd(Float(x.confidence), x.relevance)

\* An unstable insertion: x goes before the elements whose key equals its own.
RECURSIVE InsertBeforeEqual(_, _)
InsertBeforeEqual(sorted, x) ==
    IF sorted = <<>> THEN <<x>>
    ELSE IF FloatGE(CombinedScore(x), CombinedScore(Head(sorted)))
         THEN <<x>> \o sorted
         ELSE <<Head(sorted)>> \o InsertBeforeEqual(Tail(sorted), x)

\* Where list.sort(key=..., reverse=True) puts x in an already sorted list:
\* the sort is stable, so x goes after every element whose key is not smaller.
RECURSIVE InsertSorted(_, _)
InsertSorted(sorted, x) ==
    IF sorted = <<>> THEN <<x>>
    ELSE IF FloatGE(CombinedScore(Head(sorted)), CombinedScore(x))
         THEN <<Head(sorted)>> \o InsertSorted(Tail(sorted), x)
         ELSE <<x>> \o sorted

\* No sort: the kept memories stay in fetch order.
KeepFetchOrder(list, n) == SubSeq(list, 1, n)

\* relevant_memories.sort(key=..., reverse=True)
RECURSIVE SortByCombinedScore(_, _)
SortByCombinedScore(list, n) ==
    IF n = 0 THEN <<>>
    ELSE InsertSorted(SortByCombinedScore(list, n - 1), list[n])

\* relevant_memories[:limit]
Truncate(list, limit) == SubSeq(list, 1, Min(limit, Len(list)))

\* The value retrieve_relevant_memories returns for the fetched list.
RelevantMemories(memories, context, limit) ==
    LET relevant == ScoreAndFilter(memories, Lower(context), 1)
    IN Truncate(SortByCombinedScore(relevant, Len(relevant)), limit)

\* retrieve_relevant_memories(user_id, context, categories, limit); fails: a
\* statement raises, the method logs and returns [].
RetrieveRelevantMemories(u, context, categories, limit, fails) ==
    /\ \E memories \in Fetch(db, u, categories, limit) :
          ret' = [ op |-> "retrieve_relevant_memories", user_id |-> u,
                   context |-> context, categories |-> categories,
                   limit |-> limit, raised |-> fails,
                   memories |-> IF fails THEN <<>> ELSE memories,
                   value |-> IF fails THEN <<>>
                             ELSE RelevantMemories(memories, context, limit) ]
    /\ UNCHANGED <<db, nextId, clock, chat>>

(***************************************************************************)
(* MemoryBrain.extract_facts_from_conversation: the regular expressions,   *)
(* matched with re.search against the lower-cased turn.                    *)
(***************************************************************************)
\* Whether the text t stands in s at position i.
At(s, i, t) == i >= 1 /\ i + Len(t) - 1 <= Len(s) /\ SubSeq(s, i, i + Len(t) - 1) = t

Letters == {"a","b","c","d","e","f","g","h","i","j","k","l","m",
            "n","o","p","q","r","s","t","u","v","w","x","y","z"}

Digits == {"0","1","2","3","4","5","6","7","8","9"}

\* \w
IsWordChar(c) == c \in Letters \cup UpperCase \cup Digits \cup {"_"}

\* . (any character but a newline)
IsDot(c) == c # "\n"

\* The positions right after a match of one of the literals at position i.
AfterLiteral(s, i, literals) == { i + Len(t) : t \in {x \in literals : At(s, i, x)} }

\* "<head> (.+)" with head one of `heads`: a head, a blank, one character or more.
SearchHeadThenAny(s, heads) ==
    \E i \in 1..Len(s) : \E j \in AfterLiteral(s, i, {h \o " " : h \in heads}) :
        j <= Len(s) /\ IsDot(Ch(s, j))

\* "<head> (\w+)": a head, a blank, one word character or more.
SearchHeadThenWord(s, heads) ==
    \E i \in 1..Len(s) : \E j \in AfterLiteral(s, i, {h \o " " : h \in heads}) :
        j <= Len(s) /\ IsWordChar(Ch(s, j))

\* The positions right after a run of one word character or more from i.
AfterWord(s, i) ==
    { j \in (i + 1)..(Len(s) + 1) : \A k \in i..(j - 1) : IsWordChar(Ch(s, k)) }

\* The positions right after a run of one character or more (no newline) from i.
AfterAny(s, i) ==
    { j \in (i + 1)..(Len(s) + 1) : \A k \in i..(j - 1) : IsDot(Ch(s, k)) }

\* The literals "<a> <b>" for a in as and b in bs.
Pairs(as, bs) == { a \o " " \o b : a \in as, b \in bs }

\* (?:project|task) (\w+) (?:is|was|has been) (delayed|cancelled|completed|on track)
SearchProjectStatus(s) ==
    \E i \in 1..Len(s) : \E j \in AfterLiteral(s, i, {"project ", "task "}) :
        \E k \in AfterWord(s, j) :
            AfterLiteral(s, k, { " " \o t : t \in
                Pairs({"is", "was", "has been"},
                      {"delayed", "cancelled", "completed", "on track"}) }) # {}

\* (\w+) project (?:is|was) (.*)
SearchProjectIs(s) ==
    \E i \in 1..Len(s) :
        /\ IsWordChar(Ch(s, i))
        /\ AfterLiteral(s, i + 1, {" project is ", " project was "}) # {}

\* deadline for (.+) (?:is|was|has been) (?:extended|moved|changed)
SearchDeadline(s) ==
    \E i \in 1..Len(s) : \E j \in AfterLiteral(s, i, {"deadline for "}) :
        \E k \in AfterAny(s, j) :
            AfterLiteral(s, k, { " " \o t : t \in
                Pairs({"is", "was", "has been"},
                      {"extended", "moved", "changed"}) }) # {}

\* self.preference_patterns: whether each pattern is found, and its category.
preference_patterns(s) ==
    << [found |-> SearchHeadThenAny(s, {"i hate", "i don't like", "i dislike", "i avoid"}),
        category |-> "preference"],
       [found |-> SearchHeadThenAny(s, {"i love", "i like", "i prefer", "i enjoy"}),
        category |-> "preference"],
       [found |-> SearchHeadThenAny(s, {"i never"}), category |-> "preference"],
       [found |-> SearchHeadThenAny(s, {"i always"}), category |-> "preference"],
       [found |-> SearchHeadThenAny(s, {"don't schedule"}), category |-> "schedule"],
       [found |-> SearchHeadThenWord(s, {"my name is", "i'm", "i am"}), category |-> "fact"],
       [found |-> SearchHeadThenWord(s, {"call me", "address me as"}),
        category |-> "preference"] >>

\* self.project_patterns
project_patterns(s) ==
    << [found |-> SearchProjectStatus(s), category |-> "project"],
       [found |-> SearchProjectIs(s), category |-> "project"],
       [found |-> SearchDeadline(s), category |-> "project"] >>

\* confidence of a preference-pattern fact
PREFERENCE_CONFIDENCE == 90

\* confidence of a project-pattern fact
PROJECT_CONFIDENCE == 85

\* The facts one pattern list yields for a turn, in pattern order.  The key
\* extracted_value is left out: store_facts does not read it.
RECURSIVE PatternFacts(_, _, _, _)
PatternFacts(patterns, i, text, confidence) ==
    IF i > Len(patterns) THEN <<>>
    ELSE (IF patterns[i].found
          THEN << [content |-> text, category |-> patterns[i].category,
                   source |-> "chat", confidence |-> confidence] >>
          ELSE <<>>)
         \o PatternFacts(patterns, i + 1, text, confidence)

\* An extraction that keeps the lower-cased text as the content of the fact.
TurnFactsLowered(msg) ==
    IF msg.role # "user" THEN <<>>
    ELSE PatternFacts(preference_patterns(Lower(msg.content)), 1, Lower(msg.content),
                      PREFERENCE_CONFIDENCE)
         \o PatternFacts(project_patterns(Lower(msg.content)), 1, Lower(msg.content),
                         PROJECT_CONFIDENCE)

\* The facts extracted from one message: none unless its role is user.
TurnFacts(msg) ==
    IF msg.role # "user" THEN <<>>
    ELSE LET content == Lower(msg.content)
         IN PatternFacts(preference_patterns(content), 1, msg.content, PREFERENCE_CONFIDENCE)
            \o PatternFacts(project_patterns(content), 1, msg.content, PROJECT_CONFIDENCE)

\* The loop of extract_facts_from_conversation over messages[i..].
RECURSIVE ExtractedFacts(_, _)
ExtractedFacts(messages, i) ==
    IF i > Len(messages) THEN <<>>
    ELSE TurnFacts(messages[i]) \o ExtractedFacts(messages, i + 1)

(***************************************************************************)
(* MemoryBrain.extract_facts_from_email.                                   *)
(***************************************************************************)
status_keywords == <<"delayed", "completed", "cancelled", "on hold", "urgent", "deadline">>

\* The for loop over status_keywords[k..] with its break: the first keyword
\* found in the lower-cased subject or body, "" when there is none.
RECURSIVE FirstKeyword(_, _, _)
FirstKeyword(subject, body, k) ==
    IF k > Len(status_keywords) THEN ""
    ELSE IF Contains(subject, status_keywords[k]) \/ Contains(body, status_keywords[k])
         THEN status_keywords[k]
         ELSE FirstKeyword(subject, body, k + 1)

EMAIL_STATUS_CONFIDENCE == 80

EMAIL_CONTACT_CONFIDENCE == 75

\* email.get('id'): None when the record has none.
EmailId(email) == Get(email, "id", "None")

\* The fact raised from a status keyword.
StatusFact(email, keyword) ==
    [ content    |-> "Email from " \o Get(email, "from", "") \o ": "
                       \o Get(email, "subject", "") \o " - Status: " \o keyword,
      category   |-> "project",
      source     |-> "email",
      confidence |-> EMAIL_STATUS_CONFIDENCE,
      extra_data |-> [email_id |-> EmailId(email), sender |-> Get(email, "from", ""),
                      keyword |-> keyword] ]

\* 'urgent' in subject or 'important' in subject or 'asap' in body
IsUrgent(subject, body) ==
    Contains(subject, "urgent") \/ Contains(subject, "important") \/ Contains(body, "asap")

\* The fact raised from an urgency marker.
ContactFact(email) ==
    [ content    |-> Get(email, "from", "") \o " sent urgent/important email: "
                       \o Get(email, "subject", ""),
      category   |-> "contact",
      source     |-> "email",
      confidence |-> EMAIL_CONTACT_CONFIDENCE,
      extra_data |-> [sender |-> Get(email, "from", ""), email_id |-> EmailId(email)] ]

\* extracted_facts when the method reaches `if extracted_facts:`.
EmailFacts(email) ==
    LET subject == Lower(Get(email, "subject", ""))
        body    == Lower(Get(email, "body", ""))
        keyword == FirstKeyword(subject, body, 1)
    IN (IF keyword = "" THEN <<>> ELSE <<StatusFact(email, keyword)>>)
       \o (IF IsUrgent(subject, body) THEN <<ContactFact(email)>> ELSE <<>>)

\* Primary keys and timestamps handed out while emails are read.
MaxEmailIds == 3

MaxEmailClock == 3

\* extract_facts_from_email(email, user_id): store_facts is called when a
\* fact was raised, its count is dropped, the list of facts is returned.
ExtractFactsFromEmail(u, email, failAt) ==
    \E facts \in {EmailFacts(email)} :
       /\ failAt <= Len(facts) + 1
       /\ facts = <<>> => failAt = 0
       /\ \E run \in IF facts = <<>>
                      THEN { [db |-> db, nextId |-> nextId, clock |-> clock,
                              count |-> 0, raised |-> FALSE] }
                      ELSE StoreFactsRuns(db, nextId, clock, u, facts, failAt) :
             /\ run.nextId <= MaxEmailIds + 1
             /\ run.clock <= MaxEmailClock
             /\ db' = run.db
             /\ nextId' = run.nextId
             /\ clock' = run.clock
             /\ ret' = [ op |-> "extract_facts_from_email", user_id |-> u,
                         email |-> email, value |-> facts, raised |-> run.raised ]
       /\ UNCHANGED chat

(***************************************************************************)
(* AgenticAssistant: the graph of agent.py, one action per node, and the   *)
(* send_message endpoint of chat.py around it.                             *)
(***************************************************************************)
ConversationIds == {"c1", "c2"}

\* The request slots: two send_message requests can be in flight together.
RunIds == {"r1", "r2"}

\* A conversation id no request has created yet.
NoConversation == [user_id |-> "", messages |-> <<>>]

\* tool_result: Python's None, a list, or a dict.  value holds the items of
\* the list; the dict is held as one item, and told from a list by the type.
None == [type |-> "None", value |-> <<>>]

List(items) == [type |-> "list", value |-> items]

Dict(d) == [type |-> "dict", value |-> <<d>>]

\* The dict of a tool result that is one.
DictOf(result) == result.value[1]

\* A request slot not yet used, with the AgentState fields process_message sets
\* and two locals of _generate_response: system_prompt, which the model is
\* called with, and llm_raised, whether the except branch was taken.
IdleRun ==
    [ pc |-> "idle", messages |-> <<>>, user_id |-> "", conversation_id |-> "",
      memory_context |-> <<>>, response |-> "", needs_tool |-> FALSE,
      tool_name |-> "", tool_action |-> "", tool_params |-> EmptyDict,
      tool_result |-> None,
      system_prompt |-> "", llm_raised |-> FALSE ]

\* limit=5 in _retrieve_memory
RETRIEVE_LIMIT == 5

\* A request whose history keeps the message it has just stored.
SendMessageWholeHistory(r, u, c, text) ==
    LET creating == conversations[c] = NoConversation
        stored   == Append(conversations[c].messages, [role |-> "user", content |-> text])
    IN /\ runs[r].pc = "idle"
       /\ r = "r2" => runs["r1"].pc # "idle"
       /\ creating \/ conversations[c].user_id = u
       /\ c = "c2" /\ creating => conversations["c1"] # NoConversation
       /\ conversations' = [conversations EXCEPT ![c] = [user_id |-> u, messages |-> stored]]
       /\ runs' = [runs EXCEPT ![r] =
              [IdleRun EXCEPT !.pc = "retrieve_memory",
                              !.messages = Append(stored, [role |-> "user", content |-> text]),
                              !.user_id = u,
                              !.conversation_id = c]]
       /\ UNCHANGED <<store, ret, calls>>

\* send_message up to the call of the graph: the conversation is fetched, or
\* created when the request names none (c is then a fresh id); the user
\* message is stored; the history is every stored message but the last; the
\* initial AgentState is history + the request's message.  Requests take the
\* slots of runs in order, and fresh conversation ids in order.
SendMessage(r, u, c, text) ==
    LET creating == conversations[c] = NoConversation
        stored   == Append(conversations[c].messages, [role |-> "user", content |-> text])
        history  == SubSeq(stored, 1, Len(stored) - 1)
    IN /\ runs[r].pc = "idle"
       /\ r = "r2" => runs["r1"].pc # "idle"
       /\ creating \/ conversations[c].user_id = u
       /\ c = "c2" /\ creating => conversations["c1"] # NoConversation
       /\ conversations' = [conversations EXCEPT ![c] = [user_id |-> u, messages |-> stored]]
       /\ runs' = [runs EXCEPT ![r] =
              [IdleRun EXCEPT !.pc = "retrieve_memory",
                              !.messages = Append(history, [role |-> "user", content |-> text]),
                              !.user_id = u,
                              !.conversation_id = c]]
       /\ UNCHANGED <<store, ret, calls>>

\* state["messages"][-1]["content"] if state["messages"] else ""
LastContent(messages) == IF messages = <<>> THEN "" ELSE messages[Len(messages)].content

\* Node retrieve_memory.  fails: the store raises inside
\* retrieve_relevant_memories, which then returns [].
RetrieveMemory(r, fails) ==
    /\ runs[r].pc = "retrieve_memory"
    /\ \E memories \in Fetch(db, runs[r].user_id, {}, RETRIEVE_LIMIT) :
          runs' = [runs EXCEPT ![r].pc = "analyze_intent",
                               ![r].memory_context =
                                  IF fails THEN <<>>
                                  ELSE RelevantMemories(memories, LastContent(runs[r].messages),
                                                        RETRIEVE_LIMIT)]
    /\ UNCHANGED <<store, ret, conversations, calls>>

\* gmail_keywords and calendar_keywords, in the order the dicts are written.
gmail_keywords ==
    << [keyword |-> "inbox",            tool |-> "gmail", action |-> "fetch_emails"],
       [keyword |-> "email",            tool |-> "gmail", action |-> "fetch_emails"],
       [keyword |-> "mail",             tool |-> "gmail", action |-> "fetch_emails"],
       [keyword |-> "unread",           tool |-> "gmail", action |-> "get_important_emails"],
       [keyword |-> "important emails", tool |-> "gmail", action |-> "get_important_emails"],
       [keyword |-> "send email",       tool |-> "gmail", action |-> "send_email"],
       [keyword |-> "reply",            tool |-> "gmail", action |-> "send_email"] >>

calendar_keywords ==
    << [keyword |-> "calendar",     tool |-> "calendar", action |-> "get_upcoming_events"],
       [keyword |-> "schedule",     tool |-> "calendar", action |-> "get_today_schedule"],
       [keyword |-> "today",        tool |-> "calendar", action |-> "get_today_schedule"],
       [keyword |-> "meetings",     tool |-> "calendar", action |-> "get_upcoming_events"],
       [keyword |-> "events",       tool |-> "calendar", action |-> "get_upcoming_events"],
       [keyword |-> "next meeting", tool |-> "calendar", action |-> "get_next_meeting"],
       [keyword |-> "available",    tool |-> "calendar", action |-> "check_availability"],
       [keyword |-> "free",         tool |-> "calendar", action |-> "check_availability"] >>

\* The entries of a keyword table found in the message, by position.
Matches(table, user_message) ==
    {k \in DOMAIN table : Contains(user_message, table[k].keyword)}

\* A loop without the break: the last entry found in the message wins.
LastMatch(table, user_message) ==
    LET m == Matches(table, user_message)
    IN table[CHOOSE k \in m : \A j \in m : k >= j]

\* The for loop with break: the first entry of the table found in the message.
FirstMatch(table, user_message) ==
    LET m == Matches(table, user_message)
    IN table[CHOOSE k \in m : \A j \in m : k <= j]

\* Node analyze_intent: the fields it sets in the state.
Route(state) ==
    LET user_message == Lower(LastContent(state.messages))
        hit == IF Matches(gmail_keywords, user_message) # {}
               THEN <<FirstMatch(gmail_keywords, user_message)>>
               ELSE IF Matches(calendar_keywords, user_message) # {}
               THEN <<FirstMatch(calendar_keywords, user_message)>>
               ELSE <<>>
    IN IF hit = <<>> THEN [state EXCEPT !.needs_tool = FALSE]
       ELSE [state EXCEPT !.needs_tool = TRUE,
                          !.tool_name = hit[1].tool,
                          !.tool_action = hit[1].action,
                          !.tool_params = EmptyDict]

\* A conditional edge that skips generate_response when no tool is needed.
SkipToExtract(state) == IF state.needs_tool THEN "execute_tool" ELSE "extract_memory"

\* A conditional edge that enters execute_tool whatever the router decided.
AlwaysUseTool(state) == "execute_tool"

\* A conditional edge back to analyze_intent when a tool is needed.
LoopToAnalyze(state) == IF state.needs_tool THEN "analyze_intent" ELSE "generate_response"

\* _should_use_tool
ShouldUseTool(state) == IF state.needs_tool THEN "execute_tool" ELSE "generate_response"

AnalyzeIntent(r) ==
    /\ runs[r].pc = "analyze_intent"
    /\ \E routed \in {Route(runs[r])} :
          runs' = [runs EXCEPT ![r] = [routed EXCEPT !.pc = ShouldUseTool(routed)]]
    /\ UNCHANGED <<store, ret, conversations, calls>>

\* self.tools: the actions of each capability.
tools ==
    [ gmail    |-> {"fetch_emails", "search_emails", "get_email_details",
                    "send_email", "get_important_emails"},
      calendar |-> {"get_upcoming_events", "get_today_schedule",
                    "check_availability", "get_next_meeting"} ]

\* Tool functions whose parameters all have defaults.
RequiredParamsNone(tool_action) == {}

\* The parameters a tool function has besides user_id that have no default.
RequiredParams(tool_action) ==
    CASE tool_action = "search_emails"      -> {"query"}
      [] tool_action = "get_email_details"  -> {"email_id"}
      [] tool_action = "send_email"         -> {"to", "subject", "body"}
      [] tool_action = "check_availability" -> {"date"}
      [] OTHER                              -> {}

\* What the providers hand back: an email summary, a calendar event, and the
\* text of an exception, which is empty for one raised without a message.
EMAIL == [id |-> "m1", from |-> "bob", subject |-> "lunch", snippet |-> "see you at noon"]

EVENT == [id |-> "e1", title |-> "standup", start |-> "09:00"]

ErrorDetails == {"provider down", ""}

\* What a tool function can return when called with its required parameters.
\* Every one catches the failures of the provider and returns an error value
\* that carries str(e).
ToolReturns(tool_action) ==
    CASE tool_action \in {"fetch_emails", "search_emails", "get_important_emails"}
           -> { List(<<>>), List(<<EMAIL>>) } \cup { List(<<[error |-> d]>>) : d \in ErrorDetails }
      [] tool_action \in {"get_upcoming_events", "get_today_schedule"}
           -> { List(<<>>), List(<<EVENT>>) } \cup { List(<<[error |-> d]>>) : d \in ErrorDetails }
      [] tool_action = "get_next_meeting"
           -> { None, Dict(EVENT) }
      [] tool_action = "get_email_details"
           -> { Dict(EMAIL) } \cup { Dict([error |-> d]) : d \in ErrorDetails }
      [] tool_action = "check_availability"
           -> { Dict([date |-> "d"]) } \cup { Dict([error |-> d]) : d \in ErrorDetails }
      [] tool_action = "send_email"
           -> { Dict([success |-> TRUE]) }
              \cup { Dict([success |-> FALSE, error |-> d]) : d \in ErrorDetails }

\* The parameters of a tool function that have a default.
OptionalParams(tool_action) ==
    CASE tool_action = "fetch_emails"        -> {"max_results", "query"}
      [] tool_action = "search_emails"       -> {"max_results"}
      [] tool_action = "send_email"          -> {"reply_to_id"}
      [] tool_action = "get_important_emails" -> {"days"}
      [] tool_action = "get_upcoming_events" -> {"days", "max_results"}
      [] tool_action = "check_availability"  -> {"duration_minutes"}
      [] OTHER                               -> {}

\* str(e) of the TypeError Python raises when a call leaves out parameters,
\* and when it passes one the function does not have.
MISSING_ARGUMENTS == "missing required positional arguments"

UNEXPECTED_ARGUMENT == "got an unexpected keyword argument"

\* `if tool_name and tool_action`
HasDecision(state) == state.tool_name # "" /\ state.tool_action # ""

\* self.tools.get(tool_name, {}).get(tool_action) finds a function
InTable(state) ==
    state.tool_name \in DOMAIN tools /\ state.tool_action \in tools[state.tool_name]

\* What execute_tool does with an outcome.  invoked: tool_func was called;
\* raised: the call raised, and the except branch stored str(e), here detail;
\* result: the value tool_result is set to.
Returned(v) == [invoked |-> TRUE, raised |-> FALSE, detail |-> "", result |-> v]

Raised(d) == [invoked |-> TRUE, raised |-> TRUE, detail |-> d, result |-> Dict([error |-> d])]

NotInvoked(v) == [invoked |-> FALSE, raised |-> FALSE, detail |-> "", result |-> v]

\* await tool_func(user_id=state["user_id"], **tool_params): Python raises a
\* TypeError when the parameters do not fit the signature; else the function
\* returns, or raises outside its own try (SessionLocal() is called before it).
CallOutcomes(state) ==
    IF ~(RequiredParams(state.tool_action) \subseteq DOMAIN state.tool_params)
    THEN { Raised(MISSING_ARGUMENTS) }
    ELSE IF ~(DOMAIN state.tool_params \subseteq
                RequiredParams(state.tool_action) \cup OptionalParams(state.tool_action))
    THEN { Raised(UNEXPECTED_ARGUMENT) }
    ELSE { Returned(v) : v \in ToolReturns(state.tool_action) }
         \cup { Raised(d) : d \in ErrorDetails }

\* execute_tool without its inner else: an unknown pair leaves no result.
ToolOutcomesNoElse(state) ==
    IF HasDecision(state) /\ InTable(state) THEN CallOutcomes(state)
    ELSE { NotInvoked(None) }

\* Node execute_tool: what it can do with the state.
ToolOutcomes(state) ==
    IF HasDecision(state)
    THEN IF InTable(state)
         THEN CallOutcomes(state)
         ELSE { NotInvoked(Dict([error |-> "Tool not found"])) }
    ELSE { NotInvoked(None) }

\* execute_tool without its try: an exception of the call leaves the graph,
\* and process_message returns.
ExecuteToolPropagates(r, outcome) ==
    /\ runs[r].pc = "execute_tool"
    /\ outcome \in ToolOutcomes(runs[r])
    /\ runs' = [runs EXCEPT ![r].pc = IF outcome.raised THEN "end" ELSE "generate_response",
                            ![r].tool_result = IF outcome.raised THEN @ ELSE outcome.result]
    /\ calls' = [calls EXCEPT ![r] =
          IF outcome.invoked
          THEN Append(@, [tool_name |-> runs[r].tool_name, tool_action |-> runs[r].tool_action,
                          raised |-> outcome.raised, detail |-> outcome.detail])
          ELSE @]
    /\ UNCHANGED <<store, ret, conversations>>

\* execute_tool with an edge back to itself after a call that raised.
ExecuteToolRetries(r, outcome) ==
    /\ runs[r].pc = "execute_tool"
    /\ outcome \in ToolOutcomes(runs[r])
    /\ runs' = [runs EXCEPT ![r].pc = IF outcome.raised /\ Len(calls[r]) < 2
                                      THEN "execute_tool" ELSE "generate_response",
                            ![r].tool_result = outcome.result]
    /\ calls' = [calls EXCEPT ![r] =
          IF outcome.invoked
          THEN Append(@, [tool_name |-> runs[r].tool_name, tool_action |-> runs[r].tool_action,
                          raised |-> outcome.raised, detail |-> outcome.detail])
          ELSE @]
    /\ UNCHANGED <<store, ret, conversations>>

\* Node execute_tool with the outcome the tool function and its provider
\* give, and the edge to generate_response.
ExecuteTool(r, outcome) ==
    /\ runs[r].pc = "execute_tool"
    /\ outcome \in ToolOutcomes(runs[r])
    /\ runs' = [runs EXCEPT ![r].pc = "generate_response", ![r].tool_result = outcome.result]
    /\ calls' = [calls EXCEPT ![r] =
          IF outcome.invoked
          THEN Append(@, [tool_name |-> runs[r].tool_name, tool_action |-> runs[r].tool_action,
                          raised |-> outcome.raised, detail |-> outcome.detail])
          ELSE @]
    /\ UNCHANGED <<store, ret, conversations>>

\* The opening of the system prompt.  The signs stand for the emoji of the
\* source: WARNING_SIGN for U+26A0, CHART_SIGN for U+1F4CA, MEMO_SIGN for
\* U+1F4DD, BULLET for U+2022.
SYSTEM_PROMPT ==
    "You are an intelligent AI assistant acting as a personal \"Chief of Staff\". \n"
    \o "You help users manage their day by accessing their Gmail and Calendar when needed.\n\n"
    \o "Your capabilities:\n"
    \o "- Read and summarize emails from the user's inbox\n"
    \o "- Check calendar events and schedules\n"
    \o "- Help draft and send email replies\n"
    \o "- Remember user preferences and context\n\n"
    \o "Be concise, professional, and proactive. Provide actionable insights."

WARNING_SIGN == "(!)"

CHART_SIGN == "(#)"

MEMO_SIGN == "(m)"

BULLET == "*"

\* "\n".join(lines)
RECURSIVE JoinLines(_)
JoinLines(lines) ==
    IF lines = <<>> THEN ""
    ELSE IF Len(lines) = 1 THEN lines[1]
    ELSE lines[1] \o "\n" \o JoinLines(Tail(lines))

\* s[:n] and list[:n]
Take(s, n) == SubSeq(s, 1, Min(n, Len(s)))

\* f"{confidence:.0%}" of a confidence in hundredths
Percent(confidence) == ToString(confidence) \o "%"

\* The lines of the remembered facts.
MemoryText(memory_context) ==
    JoinLines([i \in DOMAIN memory_context |->
        BULLET \o " " \o memory_context[i].content
        \o " (confidence: " \o Percent(memory_context[i].confidence) \o ")"])

\* _format_tool_results for the lists of the two capabilities
FormatToolResults(tool_name, results) ==
    LET shown == Take(results, 5)
    IN IF tool_name = "gmail"
       THEN JoinLines([i \in DOMAIN shown |->
                BULLET \o " From: " \o Get(shown[i], "from", "Unknown") \o "\n"
                \o "  Subject: " \o Get(shown[i], "subject", "No subject") \o "\n"
                \o "  Preview: " \o Take(Get(shown[i], "snippet", ""), 80) \o "..."])
       ELSE JoinLines([i \in DOMAIN shown |->
                BULLET \o " " \o Get(shown[i], "title", "No title") \o "\n"
                \o "  Time: " \o Get(shown[i], "start", "Unknown") \o "\n"
                \o "  Location: " \o Get(shown[i], "location", "No location")])

\* The keys of the dicts the tools return, in the order they are written.
JSON_KEYS == <<"success", "id", "from", "subject", "snippet", "title", "start", "date", "error">>

\* json.dumps of the value of a key: a bool for success, else a str
JsonValue(key, v) ==
    IF key = "success" THEN (IF v THEN "true" ELSE "false") ELSE "\"" \o v \o "\""

\* json.dumps(result, indent=2) of a dict: the members from key k on
RECURSIVE JsonMembers(_, _)
JsonMembers(d, k) ==
    IF k > Len(JSON_KEYS) THEN <<>>
    ELSE IF JSON_KEYS[k] \in DOMAIN d
         THEN <<"  \"" \o JSON_KEYS[k] \o "\": " \o JsonValue(JSON_KEYS[k], d[JSON_KEYS[k]])>>
              \o JsonMembers(d, k + 1)
         ELSE JsonMembers(d, k + 1)

RECURSIVE JoinMembers(_)
JoinMembers(members) ==
    IF members = <<>> THEN ""
    ELSE IF Len(members) = 1 THEN members[1]
    ELSE members[1] \o ",\n" \o JoinMembers(Tail(members))

JsonDumps(d) == "{\n" \o JoinMembers(JsonMembers(d, 1)) \o "\n}"

\* `if state.get("tool_result")`: None and the empty list are false.
HasToolResult(result) ==
    \/ result.type = "list" /\ result.value # <<>>
    \/ result.type = "dict" /\ DOMAIN DictOf(result) # {}

\* What _generate_response appends to the prompt for the tool result.
ToolSection(state) ==
    LET result == state.tool_result
    IN IF ~HasToolResult(result) THEN ""
       ELSE IF result.type = "list"
       THEN IF ~Truthy(result.value[1], "error")
            THEN "\n\n" \o CHART_SIGN \o " Data retrieved:\n"
                 \o FormatToolResults(state.tool_name, result.value)
            ELSE "\n\n" \o WARNING_SIGN \o " Could not access data: " \o result.value[1].error
       ELSE IF Truthy(DictOf(result), "error")
            THEN "\n\n" \o WARNING_SIGN \o " Error: " \o DictOf(result).error
            ELSE "\n\n" \o CHART_SIGN \o " Data retrieved:\n" \o JsonDumps(DictOf(result))

\* What _generate_response appends to the prompt for the memories.
MemorySection(state) ==
    IF state.memory_context = <<>> THEN ""
    ELSE "\n\n" \o MEMO_SIGN \o " What I remember about you:\n"
         \o MemoryText(state.memory_context)

SystemPrompt(state) == SYSTEM_PROMPT \o MemorySection(state) \o ToolSection(state)

\* The text the model returns, and the text set when its call raises.
LLM_REPLY == "reply"

APOLOGY == "I apologize, but I encountered an error processing your request. Please try again."

\* generate_response without its try: a failure of the model call leaves the
\* graph, and process_message returns.
GenerateResponsePropagates(r, llm_ok) ==
    /\ runs[r].pc = "generate_response"
    /\ runs' = [runs EXCEPT ![r].pc = IF llm_ok THEN "extract_memory" ELSE "end",
                            ![r].system_prompt = SystemPrompt(runs[r]),
                            ![r].llm_raised = ~llm_ok,
                            ![r].response = IF llm_ok THEN LLM_REPLY ELSE @]
    /\ UNCHANGED <<store, ret, conversations, calls>>

\* Node generate_response and the edge to extract_memory.  llm_ok:
\* self.llm.invoke returns.
GenerateResponse(r, llm_ok) ==
    /\ runs[r].pc = "generate_response"
    /\ runs' = [runs EXCEPT ![r].pc = "extract_memory",
                            ![r].system_prompt = SystemPrompt(runs[r]),
                            ![r].llm_raised = ~llm_ok,
                            ![r].response = IF llm_ok THEN LLM_REPLY ELSE APOLOGY]
    /\ UNCHANGED <<store, ret, conversations, calls>>

\* Node extract_memory: extract_facts_from_conversation on state["messages"],
\* which calls store_facts when it extracted a fact.  The graph ends.
ExtractMemory(r, failAt) ==
    /\ runs[r].pc = "extract_memory"
    /\ \E facts \in {ExtractedFacts(runs[r].messages, 1)} :
         /\ failAt <= Len(facts) + 1
         /\ facts = <<>> => failAt = 0
         /\ \E run \in IF facts = <<>>
                        THEN { [db |-> db, nextId |-> nextId, clock |-> clock,
                                count |-> 0, raised |-> FALSE] }
                        ELSE StoreFactsRuns(db, nextId, clock, runs[r].user_id, facts, failAt) :
               /\ WithinBounds(run)
               /\ db' = run.db
               /\ nextId' = run.nextId
               /\ clock' = run.clock
               /\ ret' = [ op |-> "extract_memory", run |-> r, user_id |-> runs[r].user_id,
                           facts |-> facts, value |-> run.count, raised |-> run.raised ]
    /\ runs' = [runs EXCEPT ![r].pc = "end"]
    /\ UNCHANGED <<conversations, calls>>

\* send_message after process_message returned: the assistant message is
\* stored and the request's AgentState is dropped.
SaveReply(r) ==
    /\ runs[r].pc = "end"
    /\ conversations' =
          [conversations EXCEPT ![runs[r].conversation_id].messages =
              Append(@, [role |-> "assistant", content |-> runs[r].response])]
    /\ runs' = [runs EXCEPT ![r] = [IdleRun EXCEPT !.pc = "done"]]
    /\ UNCHANGED <<store, ret, calls>>

(***************************************************************************)
(* Inputs of the calls.                                                    *)
(***************************************************************************)
T_HATE == "I hate early morning meetings"

T_APOLLO == "Apollo project is delayed"

F_PREF ==
    [content |-> T_HATE, category |-> "preference", source |-> "chat",
     confidence |-> 90]

F_SCHED ==
    [content |-> T_HATE, category |-> "schedule", source |-> "explicit",
     confidence |-> 95]

F_NOCONF == [content |-> T_HATE, category |-> "fact", source |-> "chat"]

F_EMAIL ==
    [content |-> T_APOLLO, category |-> "project", source |-> "email",
     confidence |-> 80, extra_data |-> [sender |-> "bob", email_id |-> "e1"]]

F_OVER ==
    [content |-> T_APOLLO, category |-> "contact", source |-> "email",
     confidence |-> 120]

\* The store_facts calls: who calls, with which list of facts.
StoreInputs ==
    { <<"u1", <<F_PREF>>>>, <<"u1", <<F_SCHED>>>>, <<"u1", <<F_NOCONF>>>>,
      <<"u1", <<F_EMAIL>>>>, <<"u1", <<F_OVER>>>>,
      <<"u1", <<F_PREF, F_PREF>>>>, <<"u1", <<F_PREF, F_SCHED>>>>,
      <<"u1", <<F_SCHED, F_PREF>>>>, <<"u1", <<F_PREF, F_OVER>>>>,
      <<"u1", <<F_NOCONF, F_EMAIL>>>>,
      <<"u2", <<F_PREF>>>>, <<"u2", <<F_SCHED, F_EMAIL>>>> }

UpdateInputs ==
    { [new_content |-> T_APOLLO],
      [new_content |-> "", new_confidence |-> 60],
      [new_confidence |-> 150],
      [new_content |-> T_HATE, new_confidence |-> -5] }

Ids == 1..MaxIds

(***************************************************************************)
(* The memory store under calls of its public methods.                     *)
(***************************************************************************)
Init ==
    /\ db = {}
    /\ nextId = 1
    /\ clock = 0
    /\ ret = [op |-> "none"]
    /\ conversations = [c \in ConversationIds |-> NoConversation]
    /\ runs = [r \in RunIds |-> IdleRun]
    /\ calls = [r \in RunIds |-> <<>>]

Next ==
    \/ \E call \in StoreInputs :
         \E failAt \in 0..(Len(call[2]) + 1) : StoreFacts(call[1], call[2], failAt)
    \/ \E u \in Users, id \in Ids, args \in UpdateInputs, fails \in BOOLEAN :
         UpdateMemory(u, id, args, fails)
    \/ \E u \in Users, id \in Ids, fails \in BOOLEAN : DeleteMemory(u, id, fails)
    \/ \E u \in Users, fails \in BOOLEAN : GetAllMemories(u, fails)

Spec == Init /\ [][Next]_vars

(***************************************************************************)
(* The chat endpoint: concurrent send_message requests of one user.        *)
(***************************************************************************)
T_TWO == "I love tea and I hate coffee"

T_CAL == "what's on my calendar today"

ChatTexts == {T_HATE, T_TWO, T_CAL}

\* The provider has nothing to list, or cannot be reached.
ChatOutcomes(state) ==
    { o \in ToolOutcomes(state) :
        ~o.raised /\ o.result \in {List(<<>>), List(<<[error |-> "provider down"]>>)} }

NextChat ==
    \/ \E r \in RunIds, c \in ConversationIds, text \in ChatTexts :
         SendMessage(r, "u1", c, text)
    \/ \E r \in RunIds, fails \in BOOLEAN : RetrieveMemory(r, fails)
    \/ \E r \in RunIds : AnalyzeIntent(r)
    \/ \E r \in RunIds : \E outcome \in ChatOutcomes(runs[r]) : ExecuteTool(r, outcome)
    \/ \E r \in RunIds, llm_ok \in BOOLEAN : GenerateResponse(r, llm_ok)
    \/ \E r \in RunIds, failAt \in {0, 1} : ExtractMemory(r, failAt)
    \/ \E r \in RunIds : SaveReply(r)

SpecChat == Init /\ [][NextChat]_vars

(***************************************************************************)
(* retrieve_relevant_memories over stores the calls above can build.       *)
(***************************************************************************)
Row(id, u, content, category, source, confidence, time) ==
    [ id |-> id, user_id |-> u, content |-> content, category |-> category,
      source |-> source, confidence |-> confidence, extra_data |-> EmptyDict,
      created_at |-> time, updated_at |-> time ]

M_NOON == Row(1, "u1", "Meeting at noon", "schedule", "explicit", 60, 1)

M_BOB == Row(2, "u1", "email bob", "contact", "email", 70, 2)

M_TEA == Row(3, "u1", "likes tea", "preference", "chat", 90, 3)

M_APOLLO == Row(4, "u1", "apollo delayed", "project", "chat", 60, 3)

M_ZEUS == Row(5, "u1", "zeus delayed", "project", "email", 60, 3)

M_OTHER == Row(6, "u2", "likes tea", "preference", "chat", 90, 4)

RetrieveStores ==
    { {M_NOON, M_BOB, M_TEA, M_APOLLO, M_ZEUS, M_OTHER},
      {M_NOON, M_BOB, M_APOLLO},
      {M_NOON, M_APOLLO, M_ZEUS},
      {M_NOON, M_TEA, M_OTHER} }

Contexts == {"", "check mail", "Schedule a MEETING", "bob apollo delayed"}

CategoryFilters == { {}, {"project", "contact"} }

InitRetrieve ==
    /\ db \in RetrieveStores
    /\ nextId = 7
    /\ clock = 4
    /\ ret = [op |-> "none"]
    /\ conversations = [c \in ConversationIds |-> NoConversation]
    /\ runs = [r \in RunIds |-> IdleRun]
    /\ calls = [r \in RunIds |-> <<>>]

NextRetrieve ==
    \E u \in Users, context \in Contexts, categories \in CategoryFilters,
       limit \in 0..MaxLimit, fails \in BOOLEAN :
        RetrieveRelevantMemories(u, context, categories, limit, fails)

SpecRetrieve == InitRetrieve /\ [][NextRetrieve]_vars

(***************************************************************************)
(* One send_message request through the graph, under every outcome of the  *)
(* store, the tool and the model.                                          *)
(***************************************************************************)
T_BOTH == "Check my INBOX and calendar"

T_REPLY == "reply to bob"

T_FREE == "am I free tomorrow"

T_NEXT == "when is my next meeting"

T_UNREAD == "any unread messages"

T_SEND == "send email to bob"

T_SCHEDULE == "show my schedule"

T_HELLO == "hello there"

PipelineTexts ==
    {T_CAL, T_BOTH, T_REPLY, T_FREE, T_NEXT, T_UNREAD, T_SEND, T_SCHEDULE, T_HELLO, T_HATE}

\* A fact an earlier request of u1 stored.
M_LIKES == Row(1, "u1", "likes tea", "preference", "chat", 90, 1)

PipelineStores == { {}, {M_LIKES} }

InitPipeline ==
    /\ db \in PipelineStores
    /\ nextId = Cardinality(db) + 1
    /\ clock = Cardinality(db)
    /\ ret = [op |-> "none"]
    /\ conversations = [c \in ConversationIds |-> NoConversation]
    /\ runs = [r \in RunIds |-> IdleRun]
    /\ calls = [r \in RunIds |-> <<>>]

\* One request of u1 in one conversation, its message one of texts.
PipelineStep(texts) ==
    \/ \E text \in texts : SendMessage("r1", "u1", "c1", text)
    \/ \E fails \in BOOLEAN : RetrieveMemory("r1", fails)
    \/ AnalyzeIntent("r1")
    \/ \E outcome \in ToolOutcomes(runs["r1"]) : ExecuteTool("r1", outcome)
    \/ \E llm_ok \in BOOLEAN : GenerateResponse("r1", llm_ok)
    \/ \E failAt \in {0, 1} : ExtractMemory("r1", failAt)
    \/ SaveReply("r1")

NextPipeline == PipelineStep(PipelineTexts)

SpecPipeline == InitPipeline /\ [][NextPipeline]_vars

\* The event loop runs the node a request waits at: every await of the graph
\* returns, the model call is bounded by its timeout.
PipelineFairness ==
    /\ WF_vars(RetrieveMemory("r1", TRUE) \/ RetrieveMemory("r1", FALSE))
    /\ WF_vars(AnalyzeIntent("r1"))
    /\ WF_vars(\E outcome \in ToolOutcomes(runs["r1"]) : ExecuteTool("r1", outcome))
    /\ WF_vars(\E llm_ok \in BOOLEAN : GenerateResponse("r1", llm_ok))
    /\ WF_vars(\E failAt \in {0, 1} : ExtractMemory("r1", failAt))
    /\ WF_vars(SaveReply("r1"))

\* Short messages: one with no trigger and no fact, one routed to a tool
\* that is called without its parameters, one with a trigger and a fact.
T_HI == "hi"

T_HATE_MAIL == "I hate mail"

FairTexts == {T_HI, T_REPLY, T_HATE_MAIL}

NextFair == PipelineStep(FairTexts)

FairSpecPipeline == InitPipeline /\ [][NextFair]_vars /\ PipelineFairness

(***************************************************************************)
(* The nodes execute_tool and generate_response on the states a caller can *)
(* hand them, the routed ones and others.                                  *)
(***************************************************************************)
ExecuteNames == {"", "gmail", "calendar", "slack"}

ExecuteActions == {"", "fetch_emails", "send_email", "get_next_meeting", "nonexistent"}

ExecuteParams ==
    { EmptyDict, [to |-> "bob", subject |-> "hi", body |-> "hello"], [query |-> "is:unread"] }

InitExecute ==
    /\ db = {}
    /\ nextId = 1
    /\ clock = 0
    /\ ret = [op |-> "none"]
    /\ conversations = [c \in ConversationIds |-> NoConversation]
    /\ calls = [r \in RunIds |-> <<>>]
    /\ \E tool_name \in ExecuteNames, tool_action \in ExecuteActions,
          tool_params \in ExecuteParams :
          runs = [r \in RunIds |->
                    IF r = "r1"
                    THEN [IdleRun EXCEPT !.pc = "execute_tool",
                                         !.messages = <<[role |-> "user", content |-> T_HELLO]>>,
                                         !.user_id = "u1",
                                         !.conversation_id = "c1",
                                         !.needs_tool = TRUE,
                                         !.tool_name = tool_name,
                                         !.tool_action = tool_action,
                                         !.tool_params = tool_params]
                    ELSE IdleRun]

NextExecute ==
    \/ \E outcome \in ToolOutcomes(runs["r1"]) : ExecuteTool("r1", outcome)
    \/ \E llm_ok \in BOOLEAN : GenerateResponse("r1", llm_ok)

SpecExecute == InitExecute /\ [][NextExecute]_vars

(***************************************************************************)
(* Emails read for both users, between store_facts calls that note the     *)
(* same status by hand.                                                    *)
(***************************************************************************)
E_APOLLO == [id |-> "e1", from |-> "bob", subject |-> "Apollo Delayed", body |-> "see notes"]

E_URGENT == [id |-> "e2", from |-> "amy", subject |-> "URGENT deadline", body |-> "reply asap"]

E_ASAP == [from |-> "amy", subject |-> "lunch", body |-> "ASAP please"]

E_LUNCH == [id |-> "e4", from |-> "amy", subject |-> "lunch", body |-> "noon"]

Emails == {E_APOLLO, E_URGENT, E_ASAP, E_LUNCH}

\* The status of E_APOLLO, noted with a lower confidence.
F_NOTED ==
    [content |-> StatusFact(E_APOLLO, "delayed").content, category |-> "project",
     source |-> "explicit", confidence |-> 60]

NotedInputs == { <<F_NOTED>>, <<F_NOTED, F_NOTED>> }

NextEmail ==
    \/ \E u \in Users, email \in Emails, failAt \in 0..3 :
         ExtractFactsFromEmail(u, email, failAt)
    \/ \E facts \in NotedInputs : StoreFacts("u1", facts, 0)
    \/ \E u \in Users, id \in Ids : DeleteMemory(u, id, FALSE)

SpecEmail == Init /\ [][NextEmail]_vars

(***************************************************************************)
(* The life of a stored fact: two requests of u1 in one conversation, one  *)
(* after the other, with calls of the memory methods by both users between *)
(* their steps.                                                            *)
(***************************************************************************)
LifeTexts == {T_HATE, T_HELLO}

\* The provider has nothing to list.
LifeOutcomes(state) == { o \in ToolOutcomes(state) : ~o.raised /\ o.result = List(<<>>) }

NextLife ==
    \/ \E r \in RunIds, text \in LifeTexts :
         /\ r = "r2" => runs["r1"].pc = "done"
         /\ SendMessage(r, "u1", "c1", text)
    \/ \E r \in RunIds : RetrieveMemory(r, FALSE)
    \/ \E r \in RunIds : AnalyzeIntent(r)
    \/ \E r \in RunIds : \E outcome \in LifeOutcomes(runs[r]) : ExecuteTool(r, outcome)
    \/ \E r \in RunIds : GenerateResponse(r, TRUE)
    \/ \E r \in RunIds, failAt \in {0, 1} : ExtractMemory(r, failAt)
    \/ \E r \in RunIds : SaveReply(r)
    \/ StoreFacts("u2", <<F_PREF>>, 0)
    \/ \E u \in Users, id \in Ids : DeleteMemory(u, id, FALSE)
    \/ \E u \in Users, id \in Ids : UpdateMemory(u, id, [new_confidence |-> 60], FALSE)
    \/ \E u \in Users : GetAllMemories(u, FALSE)
    \/ \E u \in Users : RetrieveRelevantMemories(u, "", {}, MaxLimit, FALSE)

SpecLife == Init /\ [][NextLife]_vars

(***************************************************************************)
(* Properties of the memory store.                                         *)
(***************************************************************************)
IsCall(r, name) == r.op = name

\* The facts of a batch that carry content c.
WithContent(facts, c) == {i \in DOMAIN facts : facts[i].content = c}

\* The highest confidence a batch submits for content c.
SubmittedConfidence(facts, c) ==
    LET cs == {Get(facts[i], "confidence", DUP_DEFAULT_CONFIDENCE) : i \in WithContent(facts, c)}
    IN CHOOSE m \in cs : \A x \in cs : x <= m

\* C1: a store_facts call that completes and submits a fact whose
\* (user_id, content) already has a stored record leaves exactly one record
\* with that (user_id, content), whose confidence is the maximum of the
\* confidence stored before the call and the confidence submitted.
C1_DuplicateLeavesOneRecordAtMax ==
    [][ (IsCall(ret', "store_facts") /\ ~ret'.raised) =>
          \A i \in DOMAIN ret'.facts :
            LET c      == ret'.facts[i].content
                before == QueryByContent(db, ret'.user_id, c)
                after  == QueryByContent(db', ret'.user_id, c)
            IN before # {} =>
                 /\ Cardinality(after) = 1
                 /\ \A old \in before, new \in after :
                      new.confidence = Max(old.confidence, SubmittedConfidence(ret'.facts, c))
      ]_vars

\* C5: store_facts never removes a stored record and never changes its
\* content, category, source (nor owner, extra_data, created_at); a record
\* changes only by its confidence rising to that of a submitted duplicate
\* (with updated_at), and not at all when no duplicate submitted for it has a
\* higher confidence than the stored one.
C5_DuplicateChangesOnlyConfidence ==
    [][ IsCall(ret', "store_facts") =>
          \A old \in db : \E new \in db' :
            /\ new.id = old.id
            /\ new.user_id = old.user_id
            /\ new.content = old.content
            /\ new.category = old.category
            /\ new.source = old.source
            /\ new.extra_data = old.extra_data
            /\ new.created_at = old.created_at
            /\ new # old =>
                 /\ old.user_id = ret'.user_id
                 /\ new.confidence > old.confidence
                 /\ \E i \in WithContent(ret'.facts, old.content) :
                      Get(ret'.facts[i], "confidence", DUP_DEFAULT_CONFIDENCE) = new.confidence
      ]_vars

\* C5 happens: a duplicate with another category and source and a higher
\* confidence was submitted, and the stored record kept its category and
\* source while its confidence rose.
C5_Witness ==
    /\ IsCall(ret, "store_facts")
    /\ ~ret.raised
    /\ \E i \in DOMAIN ret.facts : \E r \in db :
         /\ r.user_id = ret.user_id
         /\ r.content = ret.facts[i].content
         /\ r.category # ret.facts[i].category
         /\ r.source # ret.facts[i].source
         /\ r.confidence = ret.facts[i].confidence
         /\ r.updated_at = clock
         /\ r.created_at < clock

OutOfRange(c) == c < CONFIDENCE_MIN \/ c > CONFIDENCE_MAX

\* Whether the call that returns r, made on the store rows, would store a
\* confidence outside [0,1].
WouldStoreOutOfRange(rows, r) ==
    \/ /\ IsCall(r, "update_memory")
       /\ QueryById(rows, r.user_id, r.memory_id) # {}
       /\ "new_confidence" \in DOMAIN r.args
       /\ OutOfRange(r.args.new_confidence)
    \/ /\ IsCall(r, "store_facts")
       /\ \E i \in DOMAIN r.facts :
            LET f == r.facts[i]
            IN IF QueryByContent(rows, r.user_id, f.content) = {}
               THEN OutOfRange(Get(f, "confidence", NEW_DEFAULT_CONFIDENCE))
               ELSE Get(f, "confidence", DUP_DEFAULT_CONFIDENCE) > CONFIDENCE_MAX

\* C7: after every call every stored record has a confidence in [0,1], and a
\* call that would store a confidence outside the range leaves the store as
\* it was.
C7_ConfidenceInRange ==
    [][ /\ \A r \in db' : ~OutOfRange(r.confidence)
        /\ WouldStoreOutOfRange(db, ret') => db' = db
      ]_vars

\* C7 happens: update_memory was called on an existing record of the caller
\* with a confidence above 1 (or store_facts with such a fact) and returned
\* without storing it.
C7_Witness ==
    /\ IsCall(ret, "update_memory")
    /\ "new_confidence" \in DOMAIN ret.args
    /\ ret.args.new_confidence > CONFIDENCE_MAX
    /\ ret.value = FALSE
    /\ \E r \in QueryById(db, ret.user_id, ret.memory_id) :
         r.confidence <= CONFIDENCE_MAX

\* C6: a store_facts call that completes persists every submitted fact whose
\* (user_id, content) had no stored record as exactly one new record, which
\* carries the fact's content, category, source, confidence and extra_data;
\* and get_all_memories returns every stored record of the user.
C6_NewFactPersistedOnce ==
    [][ /\ (IsCall(ret', "store_facts") /\ ~ret'.raised) =>
             \A i \in DOMAIN ret'.facts :
               LET f      == ret'.facts[i]
                   before == QueryByContent(db, ret'.user_id, f.content)
                   after  == QueryByContent(db', ret'.user_id, f.content)
                   first  == ret'.facts[CHOOSE k \in WithContent(ret'.facts, f.content) :
                                          \A j \in WithContent(ret'.facts, f.content) : k <= j]
               IN before = {} =>
                    /\ Cardinality(after) = 1
                    /\ \A new \in after :
                         /\ new.category = first.category
                         /\ new.source = first.source
                         /\ new.confidence = Get(first, "confidence", NEW_DEFAULT_CONFIDENCE)
                         /\ new.extra_data = Get(first, "extra_data", EmptyDict)
        /\ (IsCall(ret', "get_all_memories") /\ ~ret'.raised) =>
             {ret'.value[k].id : k \in DOMAIN ret'.value}
               = {r.id : r \in {x \in db' : x.user_id = ret'.user_id}}
      ]_vars

(***************************************************************************)
(* Properties of retrieve_relevant_memories.                               *)
(***************************************************************************)
\* The place of the memory with this id in a list.
Pos(list, id) == CHOOSE i \in DOMAIN list : list[i].id = id

IsRetrieval(r) == IsCall(r, "retrieve_relevant_memories")

\* C8: retrieve_relevant_memories returns at most `limit` memories, and none
\* comes before one with a higher confidence + relevance.
C8_AtMostLimitNonIncreasing ==
    IsRetrieval(ret) =>
        /\ Len(ret.value) <= ret.limit
        /\ \A i, j \in DOMAIN ret.value :
             i < j => FloatGE(CombinedScore(ret.value[i]), CombinedScore(ret.value[j]))

\* C8 happens: the user has more candidates than `limit`, `limit` memories
\* came back, and the sort moved one ahead of a memory fetched before it.
C8_Witness ==
    /\ IsRetrieval(ret)
    /\ Cardinality(Candidates(db, ret.user_id, ret.categories)) > ret.limit
    /\ Len(ret.value) = ret.limit
    /\ \E i, j \in DOMAIN ret.value :
         /\ i < j
         /\ Pos(ret.memories, ret.value[i].id) > Pos(ret.memories, ret.value[j].id)
         /\ CombinedScore(ret.value[i]) # CombinedScore(ret.value[j])

\* C9: what comes back are fetched candidates, and a fetched candidate comes
\* back exactly when its relevance is > 0 or its confidence is > 0.7; so none
\* that passes is cut by the truncation to `limit`.
C9_ReturnedIffRelevantOrConfident ==
    (IsRetrieval(ret) /\ ~ret.raised) =>
        /\ \A j \in DOMAIN ret.value :
             \E i \in DOMAIN ret.memories : ret.memories[i].id = ret.value[j].id
        /\ \A i \in DOMAIN ret.memories :
             (\E j \in DOMAIN ret.value : ret.value[j].id = ret.memories[i].id)
               <=> \/ Relevance(Lower(ret.context), ret.memories[i]).h > 0
                   \/ ret.memories[i].confidence > HIGH_CONFIDENCE

\* C9 happens: as many candidates as `limit` were fetched; one with relevance
\* 0 and confidence exactly 0.7 was left out, one with relevance 0 and a
\* higher confidence came back.
C9_Witness ==
    /\ IsRetrieval(ret)
    /\ ~ret.raised
    /\ ret.limit > 0
    /\ Len(ret.memories) = ret.limit
    /\ \E i, k \in DOMAIN ret.memories :
         /\ Relevance(Lower(ret.context), ret.memories[i]).h = 0
         /\ ret.memories[i].confidence = HIGH_CONFIDENCE
         /\ \A j \in DOMAIN ret.value : ret.value[j].id # ret.memories[i].id
         /\ Relevance(Lower(ret.context), ret.memories[k]).h = 0
         /\ \E j \in DOMAIN ret.value : ret.value[j].id = ret.memories[k].id

TurnsWith(messages, text) ==
    {i \in DOMAIN messages : messages[i].role = "user" /\ messages[i].content = text}

\* C2: after the batch a run extracted has been stored, the store holds one
\* row at most for each content of the batch and the run's user.
C2_BatchDuplicatesShareOneRow ==
    (IsCall(ret, "extract_memory") /\ ~ret.raised) =>
        \A i \in DOMAIN ret.facts :
            Cardinality(QueryByContent(db, ret.user_id, ret.facts[i].content)) <= 1

\* C3: when two runs of one user in two conversations are in flight together
\* and both have finished extracting a fact with the same content, the store
\* holds one fact at most with that user and content.
C3_ConcurrentRunsShareOneRow ==
    \A r, q \in RunIds :
        ( /\ r # q
          /\ runs[r].pc = "end" /\ runs[q].pc = "end"
          /\ runs[r].user_id = runs[q].user_id
          /\ runs[r].conversation_id # runs[q].conversation_id ) =>
            \A i \in DOMAIN runs[r].messages :
                ( /\ TurnFacts(runs[r].messages[i]) # <<>>
                  /\ TurnsWith(runs[q].messages, runs[r].messages[i].content) # {} ) =>
                    Cardinality(QueryByContent(db, runs[r].user_id,
                                               runs[r].messages[i].content)) <= 1

\* C4: a run whose message repeats a user message of an earlier turn, and
\* whose extraction completes, creates no second row for that content: the
\* rows with it are as many as before, or one when there was none.
C4_RepeatedMessageAddsNoRow ==
    [][ \A r \in RunIds :
          ( /\ runs[r].pc = "extract_memory" /\ runs'[r].pc = "end"
            /\ ~ret'.raised
            /\ Cardinality(TurnsWith(runs[r].messages, LastContent(runs[r].messages))) > 1 ) =>
              Cardinality(QueryByContent(db', runs[r].user_id, LastContent(runs[r].messages)))
                <= Max(1, Cardinality(QueryByContent(db, runs[r].user_id,
                                                     LastContent(runs[r].messages))))
      ]_vars

(***************************************************************************)
(* Properties of the graph: routing, tool execution, stage order.          *)
(***************************************************************************)
\* The nodes after analyze_intent.
AfterAnalyze == {"execute_tool", "generate_response", "extract_memory", "end"}

\* The request's message, as the router reads it.
CurrentMessage(r) == LastContent(runs[r].messages)

\* C11: for the message "what's on my calendar today" the router selects the
\* calendar capability with the action get_today_schedule.
C11_CalendarTodayRoutesToTodaySchedule ==
    \A r \in RunIds :
        runs[r].pc \in AfterAnalyze /\ CurrentMessage(r) = T_CAL
        => /\ runs[r].tool_name = "calendar"
           /\ runs[r].tool_action = "get_today_schedule"

\* The trigger phrases in priority order: all of mail, then all of calendar.
Triggers == gmail_keywords \o calendar_keywords

\* The positions of the triggers that are substrings of the lower-cased text.
TriggersIn(text) == {k \in DOMAIN Triggers : Contains(Lower(text), Triggers[k].keyword)}

\* C12: the routing decision is a function of the message alone: capability,
\* action and (empty) params of the first trigger, mail before calendar, found
\* in the lower-cased message, and no tool when none is found.
C12_DecisionIsFirstTrigger ==
    \A r \in RunIds :
        runs[r].pc \in AfterAnalyze =>
            LET hits == TriggersIn(CurrentMessage(r))
            IN IF hits = {}
               THEN /\ ~runs[r].needs_tool
                    /\ runs[r].tool_name = ""
                    /\ runs[r].tool_action = ""
               ELSE \E k \in hits :
                      /\ \A j \in hits : k <= j
                      /\ runs[r].needs_tool
                      /\ runs[r].tool_name = Triggers[k].tool
                      /\ runs[r].tool_action = Triggers[k].action
                      /\ runs[r].tool_params = EmptyDict

\* C12 happens: a message with a mail trigger in upper case and a calendar
\* trigger was routed, to mail.
C12_Witness ==
    \E r \in RunIds :
        /\ runs[r].pc \in AfterAnalyze
        /\ \E k, j \in TriggersIn(CurrentMessage(r)) :
             Triggers[k].tool = "gmail" /\ Triggers[j].tool = "calendar"
        /\ ~Contains(CurrentMessage(r), "inbox")
        /\ runs[r].tool_name = "gmail"
        /\ runs[r].tool_action = "fetch_emails"

\* The (capability, action) pair the execute stage was entered with.
Pair(state) == <<state.tool_name, state.tool_action>>

\* The pairs of the capability table.
TablePairs == UNION { {<<c, a>> : a \in tools[c]} : c \in DOMAIN tools }

\* C13: executing a pair that is not in the capability table, the capability
\* unknown or only the action, sets the tool result to the error "Tool not
\* found", calls no tool function, and goes on to generate_response.
C13_UnknownPairYieldsToolNotFound ==
    [][ \A r \in RunIds :
          /\ runs[r].pc = "execute_tool"
          /\ runs[r].tool_name # "" /\ runs[r].tool_action # ""
          /\ Pair(runs[r]) \notin TablePairs
          /\ runs'[r] # runs[r]
          => /\ runs'[r].pc = "generate_response"
             /\ runs'[r].tool_result = Dict([error |-> "Tool not found"])
             /\ calls'[r] = calls[r]
      ]_vars

\* C13 happens: a known capability with an action it does not have, one of
\* another capability, was executed and the result is the error.
C13_Witness ==
    \E r \in RunIds :
        /\ runs[r].pc = "generate_response"
        /\ runs[r].tool_name = "gmail"
        /\ runs[r].tool_action = "get_next_meeting"
        /\ runs[r].tool_result = Dict([error |-> "Tool not found"])

\* The call execute_tool made last for a request.
LastCall(r) == calls[r][Len(calls[r])]

\* C14: when the tool function raises, execute_tool sets the tool result to
\* an error dict that carries str(e), and the request goes on to
\* generate_response.
C14_RaisedBecomesErrorResult ==
    [][ \A r \in RunIds :
          /\ runs[r].pc = "execute_tool"
          /\ Len(calls'[r]) > Len(calls[r])
          /\ calls'[r][Len(calls'[r])].raised
          => /\ runs'[r].pc = "generate_response"
             /\ runs'[r].tool_result = Dict([error |-> calls'[r][Len(calls'[r])].detail])
      ]_vars

\* C14 happens: the router sent a request to send_email with no parameters,
\* the call raised a TypeError, and the request waits at generate_response
\* with the error as tool result.
C14_Witness ==
    \E r \in RunIds :
        /\ runs[r].pc = "generate_response"
        /\ calls[r] # <<>>
        /\ LastCall(r).raised
        /\ LastCall(r).tool_action = "send_email"
        /\ runs[r].tool_result = Dict([error |-> MISSING_ARGUMENTS])

\* C15: a request calls at most one tool function, none before execute_tool
\* or without a decision, and exactly one once it has left execute_tool with
\* a decision that is in the capability table.
C15_OneToolCallPerRun ==
    \A r \in RunIds :
        /\ Len(calls[r]) <= 1
        /\ runs[r].pc \in {"retrieve_memory", "analyze_intent", "execute_tool"}
           => calls[r] = <<>>
        /\ runs[r].pc \in {"generate_response", "extract_memory", "end"}
           => IF runs[r].needs_tool /\ Pair(runs[r]) \in TablePairs
              THEN /\ Len(calls[r]) = 1
                   /\ Pair(LastCall(r)) = Pair(runs[r])
              ELSE calls[r] = <<>>

\* C15 happens: a request finished the graph after a call of a tool function
\* that returned events.
C15_Witness ==
    \E r \in RunIds :
        /\ runs[r].pc = "end"
        /\ Len(calls[r]) = 1
        /\ ~LastCall(r).raised
        /\ runs[r].tool_result = List(<<EVENT>>)

\* The place of a node in the order of the graph.
Rank(pc) ==
    CASE pc = "idle" -> 0
      [] pc = "retrieve_memory" -> 1
      [] pc = "analyze_intent" -> 2
      [] pc = "execute_tool" -> 3
      [] pc = "generate_response" -> 4
      [] pc = "extract_memory" -> 5
      [] pc = "end" -> 6
      [] pc = "done" -> 7

\* C16: a request visits retrieve_memory, analyze_intent, execute_tool or
\* not, generate_response, extract_memory and the end in this order: every
\* move goes to the next node (analyze_intent may pass over execute_tool), so
\* no node is entered twice or after a later one.
C16_StagesInOrder ==
    [][ \A r \in RunIds :
          runs'[r].pc # runs[r].pc
          => /\ Rank(runs'[r].pc) > Rank(runs[r].pc)
             /\ \/ Rank(runs'[r].pc) = Rank(runs[r].pc) + 1
                \/ runs[r].pc = "analyze_intent" /\ runs'[r].pc = "generate_response"
      ]_vars

\* C16 happens: a request is at the end of the graph after a tool call, with
\* a prompt generate_response built and memories stored by extract_memory.
C16_Witness ==
    \E r \in RunIds :
        /\ runs[r].pc = "end"
        /\ Len(calls[r]) = 1
        /\ runs[r].system_prompt # ""
        /\ ret.op = "extract_memory" /\ ret.run = r /\ ret.value = 1

\* C17: the move out of analyze_intent goes to execute_tool exactly when a
\* trigger is found in the request's message; else it goes to
\* generate_response and the tool result is None.
C17_ForkOnDecision ==
    [][ \A r \in RunIds :
          runs[r].pc = "analyze_intent" /\ runs'[r].pc # "analyze_intent"
          => IF TriggersIn(CurrentMessage(r)) # {}
             THEN runs'[r].pc = "execute_tool"
             ELSE /\ runs'[r].pc = "generate_response"
                  /\ runs'[r].tool_result = None
      ]_vars

\* C17 happens: a request with no trigger in its message waits at
\* generate_response, no tool called, the tool result None.
C17_Witness ==
    \E r \in RunIds :
        /\ runs[r].pc = "generate_response"
        /\ TriggersIn(CurrentMessage(r)) = {}
        /\ calls[r] = <<>>
        /\ runs[r].tool_result = None

\* C18: every request that entered the graph reaches its end with a text as
\* response, whatever fails on the way.
C18_RunReachesEndWithText ==
    \A r \in RunIds :
        runs[r].pc = "retrieve_memory"
        ~> (runs[r].pc = "end" /\ runs[r].response \in {LLM_REPLY, APOLOGY})

\* C18 happens: a request reached the end although the memory read failed
\* (a stored fact of the user is missing from the context), the tool call
\* raised, the model call failed and the memory write failed.
C18_Witness ==
    \E r \in RunIds :
        /\ runs[r].pc = "end"
        /\ \E m \in db : m.user_id = runs[r].user_id /\ m.confidence > HIGH_CONFIDENCE
        /\ runs[r].memory_context = <<>>
        /\ calls[r] # <<>> /\ LastCall(r).raised
        /\ runs[r].tool_result.type = "dict" /\ "error" \in DOMAIN DictOf(runs[r].tool_result)
        /\ runs[r].response = APOLOGY
        /\ ret.op = "extract_memory" /\ ret.run = r /\ ret.raised

\* C19: when the model call fails the response is the fixed apology, and the
\* request goes on to extract_memory.
C19_ModelFailureGivesApology ==
    [][ \A r \in RunIds :
          runs[r].pc = "generate_response" /\ runs'[r] # runs[r] /\ runs'[r].llm_raised
          => /\ runs'[r].response = APOLOGY
             /\ runs'[r].pc = "extract_memory"
      ]_vars

\* C19 happens: the model call of a request failed, extract_memory ran after
\* it and stored a fact, and the response is the apology.
C19_Witness ==
    \E r \in RunIds :
        /\ runs[r].pc = "end"
        /\ runs[r].llm_raised
        /\ runs[r].response = APOLOGY
        /\ ret.op = "extract_memory" /\ ret.run = r /\ ret.value = 1

\* A tool result with an error field: a dict, or a list by its first item.
ErrorShaped(result) ==
    \/ result.type = "dict" /\ "error" \in DOMAIN DictOf(result)
    \/ result.type = "list" /\ result.value # <<>> /\ "error" \in DOMAIN result.value[1]

\* What generate_response added to the opening of the prompt.
GroundingContext(state) ==
    SubSeq(state.system_prompt, Len(SYSTEM_PROMPT) + 1, Len(state.system_prompt))

\* C20: when the tool result that reaches generate_response has an error
\* field, the prompt has the warning sign and no "Data retrieved" rendering
\* of the result, and the node completes.
C20_ErrorResultShownAsWarning ==
    \A r \in RunIds :
        runs[r].pc \in {"extract_memory", "end"} /\ ErrorShaped(runs[r].tool_result)
        => /\ Contains(GroundingContext(runs[r]), WARNING_SIGN)
           /\ ~Contains(GroundingContext(runs[r]), "Data retrieved")

(***************************************************************************)
(* Properties of extraction, of the life of a stored fact and of the       *)
(* isolation of users.                                                     *)
(***************************************************************************)
\* The pairs of a user turn of a message list and a pattern found in its
\* lower-cased text: <<turn, table, place in the table>>.
MatchingPairs(messages) ==
    { <<i, "preference", k>> :
        <<i, k>> \in { q \in (DOMAIN messages) \X (1..7) :
                        /\ messages[q[1]].role = "user"
                        /\ preference_patterns(Lower(messages[q[1]].content))[q[2]].found } }
    \cup
    { <<i, "project", k>> :
        <<i, k>> \in { q \in (DOMAIN messages) \X (1..3) :
                        /\ messages[q[1]].role = "user"
                        /\ project_patterns(Lower(messages[q[1]].content))[q[2]].found } }

\* The candidate the claim expects for a pair.
CandidateOf(messages, pair) ==
    [ content |-> messages[pair[1]].content,
      category |-> IF pair[2] = "preference"
                   THEN preference_patterns("")[pair[3]].category
                   ELSE project_patterns("")[pair[3]].category,
      source |-> "chat",
      confidence |-> IF pair[2] = "preference" THEN 90 ELSE 85 ]

Persisted(rows) == { row.id : row \in rows }

C22_RemovedOnlyByOwnersDelete ==
    [][\A row \in db :
         row.id \notin Persisted(db') =>
            /\ ret'.op = "delete_memory"
            /\ ret'.user_id = row.user_id
            /\ ret'.memory_id = row.id
            /\ ret'.value
            /\ db' = db \ {row}]_vars

\* The owner has deleted a fact that a finished run had stored, and the
\* other user's fact is still there.
C22_Witness ==
    /\ ret.op = "delete_memory"
    /\ ret.value
    /\ ret.user_id = "u1"
    /\ runs["r1"].pc = "done"
    /\ ret.memory_id \notin Persisted(db)
    /\ \E row \in db : row.user_id = "u2"

(***************************************************************************)
(* C23: every memory retrieve_relevant_memories returns is a fact of the   *)
(* user, of one of the given categories when the list of categories is not *)
(* empty, and fewer than `limit` of those facts come strictly before it in *)
(* the order (confidence descending, updated_at descending); a fact with   *)
(* `limit` or more such facts before it is not fetched and not returned.   *)
(***************************************************************************)
StrictlyBefore(a, b) ==
    \/ a.confidence > b.confidence
    \/ a.confidence = b.confidence /\ a.updated_at > b.updated_at

AheadOf(row, rows) == { c \in rows : StrictlyBefore(c, row) }

C23_OnlyPrefixIsScored ==
    (IsRetrieval(ret) /\ ~ret.raised) =>
        LET candidates == Candidates(db, ret.user_id, ret.categories)
            InPrefix(id) == \E row \in candidates :
                               /\ row.id = id
                               /\ Cardinality(AheadOf(row, candidates)) < ret.limit
        IN /\ \A i \in DOMAIN ret.memories : InPrefix(ret.memories[i].id)
           /\ \A j \in DOMAIN ret.value : InPrefix(ret.value[j].id)
           /\ \A row \in candidates :
                Cardinality(AheadOf(row, candidates)) >= ret.limit =>
                    \A j \in DOMAIN ret.value : ret.value[j].id # row.id

\* C23 happens: a fact of the user with `limit` facts ahead of it shares more
\* words with the context than a memory that came back, and did not come back.
C23_Witness ==
    /\ IsRetrieval(ret)
    /\ ~ret.raised
    /\ ret.value # <<>>
    /\ \E row \in Candidates(db, ret.user_id, ret.categories) :
         /\ Cardinality(AheadOf(row, Candidates(db, ret.user_id, ret.categories))) >= ret.limit
         /\ \A j \in DOMAIN ret.value : ret.value[j].id # row.id
         /\ \E i \in DOMAIN ret.memories :
              /\ \E j \in DOMAIN ret.value : ret.value[j].id = ret.memories[i].id
              /\ Relevance(Lower(ret.context), row).h
                   > Relevance(Lower(ret.context), ret.memories[i]).h

(***************************************************************************)
(* C24: a call of extract_facts_from_email that follows a call for the     *)
(* same email and user that was stored without an error leaves the rows of *)
(* the store as they are; and the list a call raises holds one project     *)
(* fact and one contact fact at most.                                      *)
(***************************************************************************)
IsEmailRun(r) == IsCall(r, "extract_facts_from_email")

C24_SecondEmailRunChangesNothing ==
    [][ ( /\ IsEmailRun(ret) /\ ~ret.raised
          /\ IsEmailRun(ret') /\ ~ret'.raised
          /\ ret'.email = ret.email /\ ret'.user_id = ret.user_id ) =>
            /\ db' = db
            /\ Cardinality({i \in DOMAIN ret'.value : ret'.value[i].category = "project"}) <= 1
            /\ Cardinality({i \in DOMAIN ret'.value : ret'.value[i].category = "contact"}) <= 1
      ]_vars

(***************************************************************************)
(* C25: when the facts of a user have pairwise different contents and      *)
(* update_memory changes the content of one of them, they still have       *)
(* pairwise different contents afterwards, also when the new content is    *)
(* the content of another fact of that user.                               *)
(***************************************************************************)
UniqueContents(rows, u) ==
    \A a, b \in rows :
        (a.user_id = u /\ b.user_id = u /\ a.content = b.content) => a.id = b.id

C25_UpdateKeepsContentsUnique ==
    [][ ( /\ IsCall(ret', "update_memory")
          /\ ret'.value
          /\ db' # db
          /\ Truthy(ret'.args, "new_content")
          /\ UniqueContents(db, ret'.user_id) ) =>
            UniqueContents(db', ret'.user_id)
      ]_vars

(***************************************************************************)
(* C26: when the user's last call of a memory method deleted a fact, the   *)
(* extraction of a run of that user stores no fact with the content of an  *)
(* earlier turn of its history that the store does not hold, unless the    *)
(* run's own message produces that content.                                *)
(***************************************************************************)
\* The contents the run's own message produces.
OwnContents(messages) ==
    { TurnFacts(messages[Len(messages)])[k].content
      : k \in DOMAIN TurnFacts(messages[Len(messages)]) }

\* The contents of the earlier user turns of the run.
HistoryContents(messages) ==
    { messages[i].content : i \in { j \in 1..(Len(messages) - 1) : messages[j].role = "user" } }

C26_DeletedFactStaysDeleted ==
    [][ \A r \in RunIds :
          ( /\ runs[r].pc = "extract_memory" /\ runs'[r].pc = "end"
            /\ IsCall(ret, "delete_memory") /\ ret.value
            /\ ret.user_id = runs[r].user_id ) =>
              \A c \in HistoryContents(runs[r].messages) \ OwnContents(runs[r].messages) :
                  QueryByContent(db, runs[r].user_id, c) = {}
                    => QueryByContent(db', runs[r].user_id, c) = {}
      ]_vars

(***************************************************************************)
(* C27: the message list a send_message request hands to the graph is the  *)
(* list of messages the conversation held when the request arrived, in     *)
(* their order, followed by the request's own message, which is in it once *)
(* and last; so it is when another request of the conversation is in       *)
(* flight.                                                                 *)
(***************************************************************************)
C27_HistoryThenOwnMessage ==
    [][ \A r \in RunIds :
          (runs[r].pc = "idle" /\ runs'[r].pc = "retrieve_memory") =>
             LET c      == runs'[r].conversation_id
                 before == conversations[c].messages
                 list   == runs'[r].messages
                 own    == Len(conversations'[c].messages)
             IN /\ Len(list) = Len(before) + 1
                /\ SubSeq(list, 1, Len(before)) = before
                /\ list[Len(list)].role = "user"
                /\ own = Len(before) + 1
                /\ list[Len(list)] = conversations'[c].messages[own]
      ]_vars

\* C27 happens: the second request arrived in the conversation of the first
\* while the first was in the graph, and its list is the first request's
\* message followed by its own.
C27_Witness ==
    /\ runs["r2"].pc = "retrieve_memory"
    /\ runs["r1"].pc \in {"analyze_intent", "execute_tool", "generate_response", "extract_memory"}
    /\ runs["r1"].conversation_id = runs["r2"].conversation_id
    /\ Len(runs["r2"].messages) = 2
    /\ runs["r2"].messages[1] = runs["r1"].messages[1]
    /\ runs["r2"].messages[2].content # runs["r2"].messages[1].content

(***************************************************************************)
(* C28: delete_memory and update_memory called for a fact with a user_id   *)
(* that is not its owner's return False and leave the store as it is; and  *)
(* every memory retrieve_relevant_memories or get_all_memories returns for *)
(* a user is a fact that user owns.                                        *)
(***************************************************************************)
OwnedBy(id, u) == \E row \in db : row.id = id /\ row.user_id = u

OwnedByAnother(id, u) == \E row \in db : row.id = id /\ row.user_id # u

C28_OperationsStayWithTheOwner ==
    [][ /\ ( /\ ret' # ret
             /\ IsCall(ret', "delete_memory") \/ IsCall(ret', "update_memory")
             /\ OwnedByAnother(ret'.memory_id, ret'.user_id) ) =>
                (ret'.value = FALSE /\ db' = db)
        /\ ( /\ ret' # ret
             /\ IsCall(ret', "retrieve_relevant_memories") \/ IsCall(ret', "get_all_memories") ) =>
                \A j \in DOMAIN ret'.value : OwnedBy(ret'.value[j].id, ret'.user_id)
      ]_vars

\* C28 happens: both users hold a fact, the last call was a deletion of the
\* other user's fact that answered False, and the fact is still stored.
C28_Witness ==
    /\ IsCall(ret, "delete_memory")
    /\ ret.value = FALSE
    /\ OwnedByAnother(ret.memory_id, ret.user_id)
    /\ \E row \in db : row.user_id = ret.user_id

(***************************************************************************)
(* C29: the router hands every tool decision over with empty parameters;   *)
(* a run routed to gmail send_email or to calendar check_availability has, *)
(* once execute_tool is done, an error as tool result, and its one call    *)
(* raised for the missing arguments before the function ran: no email is   *)
(* sent and no run holds a result of send_email.                           *)
(***************************************************************************)
NeedsArguments == {"send_email", "check_availability"}

PastExecuteTool == {"generate_response", "extract_memory", "end"}

C29_NoRunSendsAnEmail ==
    \A r \in RunIds :
        /\ runs[r].pc \in AfterAnalyze => DOMAIN runs[r].tool_params = {}
        /\ \A i \in DOMAIN calls[r] :
             calls[r][i].tool_action \in NeedsArguments =>
                 (calls[r][i].raised /\ calls[r][i].detail = MISSING_ARGUMENTS)
        /\ ( /\ runs[r].pc \in PastExecuteTool
             /\ runs[r].needs_tool
             /\ runs[r].tool_action \in NeedsArguments ) =>
               /\ calls[r] # <<>>
               /\ runs[r].tool_result = Dict([error |-> MISSING_ARGUMENTS])
        /\ runs[r].tool_result.type = "dict" =>
               "success" \notin DOMAIN DictOf(runs[r].tool_result)

\* C29 happens: a run asked for free time, was routed to check_availability,
\* and finished the graph with the error of the call as its tool result.
C29_Witness ==
    \E r \in RunIds :
        /\ runs[r].pc = "end"
        /\ runs[r].tool_name = "calendar"
        /\ runs[r].tool_action = "check_availability"
        /\ Len(calls[r]) = 1
        /\ runs[r].tool_result = Dict([error |-> MISSING_ARGUMENTS])

(***************************************************************************)
(* C30: a store_facts call that meets a store error, in its batch or at    *)
(* the commit, leaves the store as it was and returns 0; a call that meets *)
(* none returns the number of rows it created, merged duplicates not       *)
(* counted.                                                                *)
(***************************************************************************)
Created(before, after) == { row \in after : row.id \notin Persisted(before) }

C30_CountIsWhatWasPersisted ==
    [][ (IsCall(ret', "store_facts") /\ ret' # ret) =>
          IF ret'.raised
          THEN db' = db /\ ret'.value = 0
          ELSE ret'.value = Cardinality(Created(db, db'))
      ]_vars

====
